---- MODULE Spec2Model ----
(***************************************************************************)
(* A state-machine model of the PDF text reader (ScriptRock/pdf).          *)
(*                                                                         *)
(* The module holds one group of variables per subsystem and one           *)
(* specification per subsystem; a specification leaves the variables of    *)
(* the other subsystems at their idle values.                              *)
(*                                                                         *)
(*   SpecRender   text.Builder driven by Render calls (text/builder.go,    *)
(*                and the separator-appending variant of the builder)      *)
(*   SpecMerge    text.Builder driven by Render and Add calls over fonts,  *)
(*                sizes and whitespace                                     *)
(*   SpecPages    Reader.Page and Reader.Text over a page tree             *)
(*   FairPages    SpecPages with weak fairness of its steps                *)
(*   SpecContent  Page.Text: the content-stream operators over the         *)
(*                graphics and text state, with panic and recover          *)
(*   SpecKeywords SpecContent with the keywords of interpret's own among   *)
(*                the operators: dict, begin, def, currentdict, pop, dup   *)
(*   SpecHeader   NewReaderEncrypted: the header test and the scan of the  *)
(*                last bytes for %%EOF and startxref                       *)
(*   SpecCrypt    NewReaderEncrypted: the password tries, over             *)
(*                Reader.initEncrypt and decrypter.New                     *)
(*   SpecXref     readXrefTable and readXrefStream along the Prev chain    *)
(*   SpecResolve  Reader.resolve of an object reference                    *)
(*   SpecText     Text.Split and Text.TrimSpace over small Texts           *)
(*   SpecWidths   getWidths over font dictionaries and widths.CodeWidth    *)
(*   SpecCMap     encoding.CMap.Decode over small CMaps                    *)
(*   SpecMatrix   matrix.Mul: the triple loop and the two short-circuited  *)
(*                variants                                                 *)
(*   SpecPng      pngUpReader.Read over small predictor-encoded streams    *)
(*   SpecInterp   interpret: keywords over the dict stack and the handler  *)
(*   SpecLex      interpret's reads: readToken, readHexString, readObject  *)
(*   FairLex      SpecLex with weak fairness of its steps                  *)
(*   FairChain    findInherited over Parent and resolve over Extends, with *)
(*                weak fairness of their steps                             *)
(*                                                                         *)
(* Strings are sequences of one-character strings, so that prefixes,       *)
(* suffixes and concatenation are computed and not assumed.  Floating      *)
(* point coordinates are drawn from small sets of integers, on which the   *)
(* comparisons and the arithmetic of the code are exact; the text state    *)
(* and the matrices hold fractions in lowest terms and NaN, so that a      *)
(* scale of 150 percent and the logarithm of a negative scale are what     *)
(* the code computes.                                                      *)
(***************************************************************************)
EXTENDS Integers, Sequences, FiniteSets, TLC

VARIABLES
    b_impl,     \* which Builder source is running: "builder.go" or "append"
    b_y,        \* Builder.y: y of the last text rendered
    b_x,        \* Builder.x (kept by the appending variant only)
    b_text,     \* Builder.text: the parts, a sequence of [Size, Weight, Content]
    b_hist,     \* the calls made on the builder, in order (history)
    b_shown,    \* number of Render calls that had non-empty content (history)
    p_tree,     \* the page tree under trailer.Root.Pages: node -> [type, count, kids]
    p_fail,     \* the page whose Page.Text() fails (0: none)
    pg_pc,      \* Reader.Page: "idle", "outer", "kids", "found", "notfound"
    pg_caller,  \* who called Reader.Page: "none", "api" or "Text"
    pg_i,       \* Reader.Page: the 1-indexed page number asked for
    pg_num,     \* Reader.Page: num
    pg_page,    \* Reader.Page: page, the Pages node being searched
    pg_kid,     \* Reader.Page: index into Kids (0-based, as in the code)
    pg_res,     \* Reader.Page: the Page found (0: none)
    t_pc,       \* Reader.Text: "idle", "loop", "page", "done"
    t_i,        \* Reader.Text: loop variable i
    t_tt,       \* Reader.Text: tt, the texts collected so far
    t_err,      \* Reader.Text: the returned error ("none" until it returns)
    c_pc,       \* Page.Text: "idle", "run", "panic", "returned", "propagated"
    c_decoders, \* Page.Text: decoders, as <<resource name, BaseFont>> pairs
    c_g,        \* Page.Text: gState.gState (ctm and the text state)
    c_stack,    \* Page.Text: gState.stack
    c_out,      \* Page.Text: out, the text.Builder of the page
    c_panic,    \* the panic under way ("" when there is none)
    c_ps,       \* interpret: its stack, the open dictionaries and their maps
    c_last,     \* the last call of the handler: operator and operands (history)
    c_nops,     \* number of operators run (history)
    c_result,   \* Page.Text: the named result
    c_intext,   \* the stream read so far has a BT with no ET after it
    c_err,      \* Page.Text: the named result err ("none" until it returns)
    h_file,     \* NewReaderEncrypted: the bytes of the source f
    h_pc,       \* NewReaderEncrypted: "idle", "start", "trim", "trimmed", "eof",
                \* "startxref" (goes on to read the xref), "returned", "panic"
    h_buf,      \* NewReaderEncrypted: buf
    h_err,      \* NewReaderEncrypted: the returned error ("none" until it returns)
    h_i,        \* NewReaderEncrypted: i, the offset of the startxref line in buf
    e_pc,       \* NewReaderEncrypted from line 364: "idle", "start", "first",
                \* "second", "returned", "panic"
    e_trailer,  \* Reader.trailer: Encrypt (resolved) and whether ID is there
    e_upw,      \* the user password the file was encrypted with (history)
    e_pw,       \* NewReaderEncrypted: pw
    e_first,    \* NewReaderEncrypted: err of initEncrypt("")
    e_err,      \* NewReaderEncrypted: the returned error ("none" until it returns)
    e_dec,      \* Reader.decrypter: its key (<<>> for nil)
    x_kind,     \* readXref: "table" or "stream" ("none" when idle)
    x_pc,       \* readXref: "idle", "section", "done", "error", "panic"
    x_table,    \* table: element x + 1 is the entry of object number x
    x_cap,      \* cap(table) (readXrefStreamData indexes within len)
    x_size,     \* Size of the newest trailer or stream
    x_sec,      \* the section being read: 1 is the newest
    x_next,     \* the object number of the next entry of the subsection
    x_left,     \* entries left in the subsection
    x_by,       \* object number -> the section that stored its entry (history)
    x_free,     \* the object numbers the newest section marks as free (history)
    r_pc,       \* resolve: "idle", "run", "returned", "panic" or "deep"
    r_xref,     \* Reader.xref
    r_req,      \* the ptr of the outermost call
    r_stack,    \* the calls of resolve in progress, innermost last
    r_val,      \* the value the outermost call returned
    tx_pc,      \* Text: "idle", "split" or "trimmed"
    tx_in,      \* the Text the method is called on
    tx_sep,     \* the separator given to Split
    tx_segs,    \* the []Text Split returned
    tx_trim,    \* the Text TrimSpace returned
    w_pc,       \* widths: "idle", "built", "looked" or "panic"
    w_dict,     \* the font dictionary given to getWidths
    w_widths,   \* the widths getWidths returned
    w_code,     \* the code given to CodeWidth
    w_out,      \* what CodeWidth returned
    m_pc,       \* CMap: "idle", "decoded" or "panic"
    m_cmap,     \* the CMap
    m_raw,      \* the bytes given to Decode
    m_text,     \* the runes Decode returned
    m_w,        \* the width Decode returned
    k_pc,       \* matrix: "idle" or "done"
    k_m,        \* the receiver of Mul
    k_n,        \* the argument of Mul
    k_full,     \* m.Mul(n) by the triple loop
    k_rot,      \* m.Mul(n) by the rotation() variant
    k_sparse,   \* m.Mul(n) by the sparse() variant
    g_pc,       \* pngUpReader, by the last Read: "idle"; "reading" after
                \* bytes or no error; "eof" and "failed" after no byte and
                \* io.EOF or another error
    g_file,     \* the bytes of the underlying reader
    g_cols,     \* Columns
    g_in,       \* the bytes not yet read from the underlying reader
    g_hist,     \* pngUpReader.hist
    g_pend,     \* pngUpReader.pend
    g_out,      \* the bytes the Read calls delivered so far
    g_err,      \* the error of the last Read
    g_bad,      \* the number of Reads that returned the malformed error
                \* (history)
    i_pc,       \* interpret: "idle", "run", "done" or "panic"
    i_stream,   \* the tokens of the stream
    i_rest,     \* the tokens not yet read
    i_stk,      \* interpret: stk
    i_dicts,    \* interpret: dicts, as references into i_heap
    i_heap,     \* the types.Dict maps the values refer to
    i_calls,    \* the calls of do, each with its keyword and the stack it saw
    l_pc,       \* the lexer under interpret: "idle", "token", "hex", "hex2", "done" or "panic"
    l_in,       \* the bytes of the stream
    l_pos,      \* the number of bytes read
    l_eof,      \* buffer.eof
    l_c,        \* readHexString: c, the first digit of a pair
    l_tmp,      \* readHexString: tmp
    l_open,     \* the arrays and dictionaries readObject is inside of
    l_toks,     \* the tokens handed to interpret and readObject
    l_panic,    \* the panic raised
    f_pc,       \* a walk along a chain: "idle", "walk", "returned" or "panic"
    f_kind,     \* "Parent" for findInherited, "Extends" for resolve's search
    f_link,     \* the Parent, or Extends, of every object; 0 for none
    f_has,      \* the objects that hold the key, or list the object looked for
    f_v         \* findInherited: v, resolve: strm; 0 for null

bvars == <<b_impl, b_y, b_x, b_text, b_hist, b_shown>>

pvars == <<p_tree, p_fail, pg_pc, pg_caller, pg_i, pg_num, pg_page, pg_kid,
           pg_res, t_pc, t_i, t_tt, t_err>>

cvars == <<c_pc, c_decoders, c_g, c_stack, c_out, c_panic, c_ps, c_last, c_nops,
           c_result, c_intext, c_err>>

hvars == <<h_file, h_pc, h_buf, h_err, h_i>>

evars == <<e_pc, e_trailer, e_upw, e_pw, e_first, e_err, e_dec>>

xvars == <<x_kind, x_pc, x_table, x_cap, x_size, x_sec, x_next, x_left, x_by, x_free>>

rvars == <<r_pc, r_xref, r_req, r_stack, r_val>>

tvars == <<tx_pc, tx_in, tx_sep, tx_segs, tx_trim>>

wvars == <<w_pc, w_dict, w_widths, w_code, w_out>>

mvars == <<m_pc, m_cmap, m_raw, m_text, m_w>>

kvars == <<k_pc, k_m, k_n, k_full, k_rot, k_sparse>>

gvars == <<g_pc, g_file, g_cols, g_in, g_hist, g_pend, g_out, g_err, g_bad>>

ivars == <<i_pc, i_stream, i_rest, i_stk, i_dicts, i_heap, i_calls>>

lvars == <<l_pc, l_in, l_pos, l_eof, l_c, l_tmp, l_open, l_toks, l_panic>>

fvars == <<f_pc, f_kind, f_link, f_has, f_v>>

vars == <<bvars, pvars, cvars, hvars, evars, xvars, rvars, tvars, wvars, mvars, kvars, gvars, ivars, lvars, fvars>>

\* What the actions of one subsystem leave alone: the other subsystems.
notB == <<pvars, cvars, hvars, evars, xvars, rvars, tvars, wvars, mvars, kvars, gvars, ivars, lvars, fvars>>
notP == <<bvars, cvars, hvars, evars, xvars, rvars, tvars, wvars, mvars, kvars, gvars, ivars, lvars, fvars>>
notC == <<bvars, pvars, hvars, evars, xvars, rvars, tvars, wvars, mvars, kvars, gvars, ivars, lvars, fvars>>
notH == <<bvars, pvars, cvars, evars, xvars, rvars, tvars, wvars, mvars, kvars, gvars, ivars, lvars, fvars>>
notE == <<bvars, pvars, cvars, hvars, xvars, rvars, tvars, wvars, mvars, kvars, gvars, ivars, lvars, fvars>>
notX == <<bvars, pvars, cvars, hvars, evars, rvars, tvars, wvars, mvars, kvars, gvars, ivars, lvars, fvars>>
notR == <<bvars, pvars, cvars, hvars, evars, xvars, tvars, wvars, mvars, kvars, gvars, ivars, lvars, fvars>>
notT == <<bvars, pvars, cvars, hvars, evars, xvars, rvars, wvars, mvars, kvars, gvars, ivars, lvars, fvars>>
notW == <<bvars, pvars, cvars, hvars, evars, xvars, rvars, tvars, mvars, kvars, gvars, ivars, lvars, fvars>>
notM == <<bvars, pvars, cvars, hvars, evars, xvars, rvars, tvars, wvars, kvars, gvars, ivars, lvars, fvars>>
notK == <<bvars, pvars, cvars, hvars, evars, xvars, rvars, tvars, wvars, mvars, gvars, ivars, lvars, fvars>>
notG == <<bvars, pvars, cvars, hvars, evars, xvars, rvars, tvars, wvars, mvars, kvars, ivars, lvars, fvars>>
notI == <<bvars, pvars, cvars, hvars, evars, xvars, rvars, tvars, wvars, mvars, kvars, gvars, lvars, fvars>>
notL == <<bvars, pvars, cvars, hvars, evars, xvars, rvars, tvars, wvars, mvars, kvars, gvars, ivars, fvars>>
notF == <<bvars, pvars, cvars, hvars, evars, xvars, rvars, tvars, wvars, mvars, kvars, gvars, ivars, lvars>>

(***************************************************************************)
(* Generic helpers on sequences used as strings.                           *)
(***************************************************************************)
HasSuffix(s, suf) ==
    /\ Len(s) >= Len(suf)
    /\ SubSeq(s, Len(s) - Len(suf) + 1, Len(s)) = suf

HasPrefix(s, pre) ==
    /\ Len(s) >= Len(pre)
    /\ SubSeq(s, 1, Len(pre)) = pre

\* unicode.IsSpace restricted to the characters the model draws from.
IsSpace(c) == c \in {" ", "\n", "\t", "\r"}

\* len(strings.TrimSpace(content)) == 0
IsWhitespace(content) == \A i \in 1..Len(content) : IsSpace(content[i])

RECURSIVE Concat(_)
\* Text.String(): the contents of the parts, concatenated.
Concat(parts) ==
    IF parts = <<>> THEN <<>>
    ELSE parts[1].Content \o Concat(Tail(parts))

(***************************************************************************)
(* float64                                                                 *)
(*                                                                         *)
(* A float64 is the fraction n/d in lowest terms with d > 0, or NaN, which *)
(* is written 0/0.  The arithmetic is exact: rounding, overflow and the    *)
(* infinities are left out, and no operation of the model divides by a     *)
(* variable.                                                               *)
(***************************************************************************)
\* float64(n) of an integer n.
F(n) == [n |-> n, d |-> 1]
NaN  == [n |-> 0, d |-> 0]

Abs(n) == IF n < 0 THEN -n ELSE n

RECURSIVE GCD(_, _)
GCD(a, b) == IF b = 0 THEN a ELSE GCD(b, a % b)

\* The float64 n/d of two integers, d other than 0.
Frac(n, d) ==
    LET g == GCD(Abs(n), Abs(d))
        s == IF d < 0 THEN -1 ELSE 1
    IN [n |-> (s * n) \div g, d |-> (s * d) \div g]

\* a + b, a * b, -a and a - b: NaN when an operand is NaN.
FAdd(a, b) ==
    IF a.d = 0 \/ b.d = 0 THEN NaN
    ELSE IF a.d = 1 /\ b.d = 1 THEN F(a.n + b.n)
    ELSE Frac(a.n * b.d + b.n * a.d, a.d * b.d)
FMul(a, b) ==
    IF a.d = 0 \/ b.d = 0 THEN NaN
    ELSE IF a.d = 1 /\ b.d = 1 THEN F(a.n * b.n)
    ELSE Frac(a.n * b.n, a.d * b.d)
FNeg(a) == [a EXCEPT !.n = -@]
FSub(a, b) == FAdd(a, FNeg(b))

\* a / k for an integer constant k other than 0.
FDiv(a, k) == FMul(a, Frac(1, k))

\* a < b and a == b: false when an operand is NaN.
FLt(a, b) == a.d # 0 /\ b.d # 0 /\ a.n * b.d < b.n * a.d
FEq(a, b) == a.d # 0 /\ a = b

\* math.Exp(math.Log(a)): a itself for a > 0, exp(-Inf) = 0 for a = 0, and
\* NaN for a negative a, whose logarithm is NaN.
ExpLog(a) == IF a.d = 0 \/ a.n < 0 THEN NaN ELSE a

(***************************************************************************)
(* text.Builder                                                            *)
(***************************************************************************)
MaxCalls == 3

NoSep    == <<>>
LineSep  == <<"\n">>
ParaSep  == <<"\n", "\n">>

BoldSuffix == <<"-", "B", "o", "l", "d">>
FontF      == <<"F">>
FontFBold  == <<"F">> \o BoldSuffix
Fonts      == {FontF, FontFBold}

\* y coordinates and heights of the rendered runs.  A negative height is what
\* a flipped CTM ("1 0 0 -1 0 792 cm") gives to textDims.
Ys == {60, 90, 100}
Hs == {10, 15, -10}
Xs == {0}
Ws == {10}

\* The k-th call shows the k-th letter or the empty string: the letters
\* only label the calls, Render treats every non-space content alike.
Letter(k) == <<"a", "b", "c", "d", "e", "f">>[k]
ContentsAt(k) == {<<>>, <<Letter(k)>>}

\* Builder.Render, lines 24-32: the separator chosen for a non-empty content.
SeparatorBad(empty, prevY, y, h) ==
    IF empty THEN NoSep
    ELSE IF y > prevY \/ y < prevY - h THEN ParaSep
    ELSE IF y < prevY THEN LineSep
    ELSE NoSep

Separator(empty, prevY, y, h) ==
    IF empty THEN NoSep
    ELSE IF y > prevY \/ y < prevY - 2 * h THEN ParaSep
    ELSE IF y < prevY THEN LineSep
    ELSE NoSep

\* The same lines on float64 operands: a comparison with NaN is false.
SeparatorF(empty, prevY, y, h) ==
    IF empty THEN NoSep
    ELSE IF FLt(prevY, y) \/ FLt(y, FSub(prevY, FMul(F(2), h))) THEN ParaSep
    ELSE IF FLt(y, prevY) THEN LineSep
    ELSE NoSep

\* A Render that takes every font for a regular one.
WeightNone(font) == 0

\* Builder.Render, lines 35-38.
Weight(font) == IF HasSuffix(font, BoldSuffix) THEN 1 ELSE 0

\* Builder.append of the appending variant: the last part's content grows.
append(text, s) ==
    [text EXCEPT ![Len(text)].Content = @ \o s]

\* A builder that never merges: every content becomes a part of its own.
addNoMerge(text, size, weight, content) ==
    text \o <<[Size |-> size, Weight |-> weight, Content |-> content]>>

\* A builder that merges whenever a last part exists.
addAlways(text, size, weight, content) ==
    IF Len(text) > 0 THEN append(text, content)
    ELSE text \o <<[Size |-> size, Weight |-> weight, Content |-> content]>>

\* A builder that merges whitespace only: a piece of the last part's size
\* and weight becomes a part of its own.
addWhitespaceOnly(text, size, weight, content) ==
    IF Len(text) > 0 /\ IsWhitespace(content) THEN append(text, content)
    ELSE text \o <<[Size |-> size, Weight |-> weight, Content |-> content]>>

\* Builder.add: merge into the last part or push a new part.
add(text, size, weight, content) ==
    IF /\ Len(text) > 0
       /\ \/ IsWhitespace(content)
          \/ (text[Len(text)].Size = size /\ text[Len(text)].Weight = weight)
    THEN append(text, content)
    ELSE text \o <<[Size |-> size, Weight |-> weight, Content |-> content]>>

\* Builder.add on a float64 size: lastPiece.Size == size is false for NaN.
addF(text, size, weight, content) ==
    IF /\ Len(text) > 0
       /\ \/ IsWhitespace(content)
          \/ (FEq(text[Len(text)].Size, size) /\ text[Len(text)].Weight = weight)
    THEN append(text, content)
    ELSE text \o <<[Size |-> size, Weight |-> weight, Content |-> content]>>

RECURSIVE AddAll(_, _)
\* Builder.Add: the parts of t are added in order.
AddAll(text, t) ==
    IF t = <<>> THEN text
    ELSE AddAll(add(text, t[1].Size, t[1].Weight, t[1].Content), Tail(t))

\* Builder.Render of text/builder.go: the separator is put in front of the
\* content and both are added as one piece.
RenderPrefix(text, prevY, y, h, font, content) ==
    add(text, h, Weight(font),
        Separator(Len(text) = 0, prevY, y, h) \o content)

\* Builder.Render of the appending variant: the separator is appended to the
\* last part, then the content is added.
RenderAppend(text, prevY, y, h, font, content) ==
    LET sep == Separator(Len(text) = 0, prevY, y, h)
        t1  == IF sep = NoSep THEN text ELSE append(text, sep)
    IN add(t1, h, Weight(font), content)

BuilderInit ==
    /\ b_impl \in {"builder.go", "append"}
    /\ b_y = 0
    /\ b_x = 0
    /\ b_text = <<>>
    /\ b_hist = <<>>
    /\ b_shown = 0

BuilderIdle ==
    /\ b_impl = "builder.go"
    /\ b_y = 0
    /\ b_x = 0
    /\ b_text = <<>>
    /\ b_hist = <<>>
    /\ b_shown = 0

\* The record of one Render call.
Call(x, y, w, h, font, content) ==
    [op |-> "Render", x |-> x, y |-> y, w |-> w, h |-> h,
     font |-> font, content |-> content, t |-> <<>>]

\* The record of one Add call.
AddCall(t) ==
    [op |-> "Add", x |-> 0, y |-> 0, w |-> 0, h |-> 0,
     font |-> <<>>, content |-> <<>>, t |-> t]

\* Builder.Render(x, y, w, h, font, content)
Render(x, y, w, h, font, content) ==
    /\ Len(b_hist) < MaxCalls
    /\ b_hist' = Append(b_hist, Call(x, y, w, h, font, content))
    /\ b_impl' = b_impl
    /\ UNCHANGED notB
    /\ IF Len(content) = 0
       THEN UNCHANGED <<b_y, b_x, b_text, b_shown>>
       ELSE /\ b_shown' = b_shown + 1
            /\ b_y' = y
            /\ b_x' = IF b_impl = "append" THEN x + w ELSE b_x
            /\ b_text' = IF b_impl = "append"
                         THEN RenderAppend(b_text, b_y, y, h, font, content)
                         ELSE RenderPrefix(b_text, b_y, y, h, font, content)

\* Builder.Add(t)
Add(t) ==
    /\ Len(b_hist) < MaxCalls
    /\ b_hist' = Append(b_hist, AddCall(t))
    /\ b_text' = AddAll(b_text, t)
    /\ UNCHANGED <<b_impl, b_y, b_x, b_shown>>
    /\ UNCHANGED notB

(***************************************************************************)
(* The page tree, Reader.Page and Reader.Text                              *)
(***************************************************************************)
MaxNodes == 4

\* Reader.Page counts num down without end once it is negative (the code's int
\* would wrap only after 2^63 steps).  Every negative num behaves alike in the
\* comparisons of the search, so the model stops counting at -NumFloor.
NumFloor == 3

Floor(n) == IF n < -NumFloor THEN -NumFloor ELSE n

RECURSIVE SetToSeq(_)
\* The elements of a set of numbers, in increasing order.
SetToSeq(S) ==
    IF S = {} THEN <<>>
    ELSE LET m == CHOOSE x \in S : \A z \in S : x <= z
         IN <<m>> \o SetToSeq(S \ {m})

RECURSIVE LeavesOf(_, _, _)
\* The Page leaves under the kids kk[j..] of a node, depth first and left to
\* right; typ and kids describe the tree.
LeavesOf(typ, kids, todo) ==
    IF todo = <<>> THEN <<>>
    ELSE LET n == Head(todo)
         IN IF typ[n] = "Page" THEN <<n>> \o LeavesOf(typ, kids, Tail(todo))
            ELSE LeavesOf(typ, kids, kids[n] \o Tail(todo))

\* The page tree with k nodes whose shape is given by the parent function par
\* and the node types typ; the Count of node skew is off by skewBy.
MkTree(k, par, typ, skew, skewBy) ==
    LET kids == [n \in 1..k |->
                    IF typ[n] = "Pages"
                    THEN SetToSeq({m \in 2..k : par[m] = n})
                    ELSE <<>>]
    IN [n \in 1..k |->
          [type  |-> typ[n],
           kids  |-> kids[n],
           count |-> IF typ[n] = "Pages"
                     THEN LET c == Len(LeavesOf(typ, kids, kids[n]))
                                   + (IF n = skew THEN skewBy ELSE 0)
                          IN IF c < 0 THEN 0 ELSE c
                     ELSE 0]]

Nodes == DOMAIN p_tree
RootNode == 1

\* The Page leaves of the document, in depth-first, left-to-right order.
Leaves ==
    LeavesOf([n \in Nodes |-> p_tree[n].type],
             [n \in Nodes |-> p_tree[n].kids], <<RootNode>>)

LeavesUnder(n) ==
    LeavesOf([m \in Nodes |-> p_tree[m].type],
             [m \in Nodes |-> p_tree[m].kids], p_tree[n].kids)

\* Every Pages node's Count equals the number of Page leaves beneath it.
Consistent ==
    \A n \in Nodes :
        p_tree[n].type = "Pages" => p_tree[n].count = Len(LeavesUnder(n))

\* Reader.NPages: the Count of the root Pages node.
NPages == p_tree[RootNode].count

\* The text of a page: the page's own number stands for its text, and 0 for
\* the empty text of the null page.
TextOf(n) == n

PageMachineIdle ==
    /\ pg_pc = "idle"
    /\ pg_caller = "none"
    /\ pg_i = 0
    /\ pg_num = 0
    /\ pg_page = 0
    /\ pg_kid = 0
    /\ pg_res = 0
    /\ t_pc = "idle"
    /\ t_i = 0
    /\ t_tt = <<>>
    /\ t_err = "none"

PagesIdle ==
    /\ p_tree = <<[type |-> "Pages", kids |-> <<>>, count |-> 0]>>
    /\ p_fail = 0
    /\ PageMachineIdle

PagesInit ==
    /\ \E k \in 1..MaxNodes :
         \E par \in [2..k -> 1..k], typ \in [1..k -> {"Pages", "Page"}] :
           \E skew \in 0..k, skewBy \in {-1, 1} :
             /\ typ[1] = "Pages"
             /\ \A n \in 2..k : par[n] < n /\ typ[par[n]] = "Pages"
             /\ skew = 0 => skewBy = 1
             /\ skew # 0 => typ[skew] = "Pages"
             /\ p_tree = MkTree(k, par, typ, skew, skewBy)
    /\ p_fail \in {0} \cup {n \in DOMAIN p_tree : p_tree[n].type = "Page"}
    /\ PageMachineIdle

\* Reader.Page, lines 26-27: num := i - 1; page := Root.Pages.
StartPage(i, caller) ==
    /\ pg_pc' = "outer"
    /\ pg_caller' = caller
    /\ pg_i' = i
    /\ pg_num' = i - 1
    /\ pg_page' = RootNode
    /\ pg_kid' = 0
    /\ pg_res' = 0

\* A caller asks for page i.
PageCall(i) ==
    /\ pg_pc = "idle" /\ t_pc = "idle"
    /\ StartPage(i, "api")
    /\ UNCHANGED <<p_tree, p_fail, t_pc, t_i, t_tt, t_err>>
    /\ UNCHANGED notP

\* The test "count < num" that ends the search at a Pages node.
CountTooSmall(count, num) == count < num

\* Reader.Page, lines 29-35: the head of the Search loop.
PageOuter ==
    /\ pg_pc = "outer"
    /\ IF p_tree[pg_page].type # "Pages"
       THEN pg_pc' = "notfound" /\ UNCHANGED pg_kid
       ELSE IF CountTooSmall(p_tree[pg_page].count, pg_num)
       THEN pg_pc' = "notfound" /\ UNCHANGED pg_kid
       ELSE pg_pc' = "kids" /\ pg_kid' = 0
    /\ UNCHANGED <<p_tree, p_fail, pg_caller, pg_i, pg_num, pg_page, pg_res,
                   t_pc, t_i, t_tt, t_err>>
    /\ UNCHANGED notP

\* The test "num < c" that sends the search into a Pages kid with Count c.
DescendOff(num, c) == num <= c

Descend(num, c) == num < c

\* Reader.Page, lines 35-53: one iteration of the loop over Kids.
PageKid ==
    /\ pg_pc = "kids"
    /\ LET kids == p_tree[pg_page].kids IN
       IF pg_kid >= Len(kids)
       THEN \* the kids are exhausted: the Search loop runs again on the same node
            /\ pg_pc' = "outer"
            /\ UNCHANGED <<pg_num, pg_page, pg_kid, pg_res>>
       ELSE LET kid == kids[pg_kid + 1] IN
            IF p_tree[kid].type = "Pages"
            THEN IF Descend(pg_num, p_tree[kid].count)
                 THEN /\ pg_page' = kid
                      /\ pg_pc' = "outer"
                      /\ UNCHANGED <<pg_num, pg_kid, pg_res>>
                 ELSE /\ pg_num' = Floor(pg_num - p_tree[kid].count)
                      /\ pg_kid' = pg_kid + 1
                      /\ UNCHANGED <<pg_pc, pg_page, pg_res>>
            ELSE IF p_tree[kid].type = "Page"
            THEN IF pg_num = 0
                 THEN /\ pg_res' = kid
                      /\ pg_pc' = "found"
                      /\ UNCHANGED <<pg_num, pg_page, pg_kid>>
                 ELSE /\ pg_num' = Floor(pg_num - 1)
                      /\ pg_kid' = pg_kid + 1
                      /\ UNCHANGED <<pg_pc, pg_page, pg_res>>
            ELSE /\ pg_kid' = pg_kid + 1
                 /\ UNCHANGED <<pg_pc, pg_num, pg_page, pg_res>>
    /\ UNCHANGED <<p_tree, p_fail, pg_caller, pg_i, t_pc, t_i, t_tt, t_err>>
    /\ UNCHANGED notP

\* Reader.Text is called.
TextCall ==
    /\ pg_pc = "idle" /\ t_pc = "idle"
    /\ t_pc' = "loop"
    /\ t_i' = 1
    /\ t_tt' = <<>>
    /\ UNCHANGED <<p_tree, p_fail, pg_pc, pg_caller, pg_i, pg_num, pg_page,
                   pg_kid, pg_res, t_err>>
    /\ UNCHANGED notP

\* Reader.Text, lines 397-398: the loop test, and the call r.Page(i).
TextLoop ==
    /\ t_pc = "loop"
    /\ IF t_i <= NPages
       THEN /\ StartPage(t_i, "Text")
            /\ t_pc' = "page"
            /\ UNCHANGED <<t_i, t_tt, t_err>>
       ELSE /\ t_pc' = "done"
            /\ t_err' = "nil"
            /\ UNCHANGED <<pg_pc, pg_caller, pg_i, pg_num, pg_page, pg_kid,
                           pg_res, t_i, t_tt>>
    /\ UNCHANGED <<p_tree, p_fail>>
    /\ UNCHANGED notP

\* What Reader.Text does with the error of a page: it returns it at once.
OnPageError(tt, i) ==
    [pc |-> "done", i |-> i, tt |-> <<>>, err |-> "error"]

\* Reader.Text, lines 399-403: p.Text() on the page that r.Page(i) returned.
\* The null page has no Contents and yields the empty text without error.
TextPage ==
    /\ t_pc = "page"
    /\ pg_pc \in {"found", "notfound"}
    /\ LET failed == pg_pc = "found" /\ pg_res = p_fail
           next == IF failed THEN OnPageError(t_tt, t_i)
                   ELSE [pc |-> "loop", i |-> t_i + 1,
                         tt |-> Append(t_tt, IF pg_pc = "found"
                                             THEN TextOf(pg_res) ELSE 0),
                         err |-> "none"]
       IN /\ t_pc' = next.pc
          /\ t_i' = next.i
          /\ t_tt' = next.tt
          /\ t_err' = next.err
    /\ pg_pc' = "idle"
    /\ pg_caller' = "none"
    /\ UNCHANGED <<p_tree, p_fail, pg_i, pg_num, pg_page, pg_kid, pg_res>>
    /\ UNCHANGED notP

(***************************************************************************)
(* Page.Text: the content-stream handler over state.Graphics / state.Text  *)
(***************************************************************************)
MaxOps == 4

\* A nil *matrix.
NilM == <<>>

identity ==
    <<<<F(1), F(0), F(0)>>, <<F(0), F(1), F(0)>>, <<F(0), F(0), F(1)>>>>

\* The matrix {{a, b, 0}, {c, d, 0}, {e, f, 1}} built by CM, Tm and Td.
Matrix(a, b, c, d, e, f) ==
    <<<<a, b, F(0)>>, <<c, d, F(0)>>, <<e, f, F(1)>>>>

\* matrix.Mul: the full product by the triple loop (both operands non-nil);
\* every entry is the sum of its three products, so a NaN in a row of m or a
\* column of n reaches it even next to a zero.
Mul(m, n) ==
    [i \in 1..3 |-> [j \in 1..3 |->
        FAdd(FAdd(FMul(m[i][1], n[1][j]), FMul(m[i][2], n[2][j])),
             FMul(m[i][3], n[3][j]))]]

\* The values on the operand stack: an integer, a real (with an integral
\* value n), a name, a string, an array or null.
NumV(n)  == [k |-> "num",  n |-> n, s |-> <<>>, a |-> <<>>]
RealV(n) == [k |-> "real", n |-> n, s |-> <<>>, a |-> <<>>]
NullV    == [k |-> "null", n |-> 0, s |-> <<>>, a |-> <<>>]
\* A dictionary that interpret made, by the number of its map.
DictV(r) == [k |-> "dict", n |-> r, s |-> <<>>, a |-> <<>>]
NameV(s) == [k |-> "name", n |-> 0, s |-> s,    a |-> <<>>]
StrV(s)  == [k |-> "str",  n |-> 0, s |-> s,    a |-> <<>>]
ArrV(a)  == [k |-> "arr",  n |-> 0, s |-> <<>>, a |-> a]

\* value.Float64, value.Int64, value.Name, value.RawString: the zero value
\* on another kind.  Float64 and Int64 give the integer that the float64 or
\* the int64 holds.
Float64(v)   == IF v.k \in {"num", "real"} THEN v.n ELSE 0
Int64(v)     == IF v.k = "num" THEN v.n ELSE 0
Name(v)      == IF v.k = "name" THEN v.s ELSE ""
RawString(v) == IF v.k = "str" THEN v.s ELSE <<>>

\* state.Text.tf: a nil interface, an interface holding a nil *font (what
\* decoders[name] gives for a name the page has no font for), or a font.
NilFont    == [ptr |-> "nil",    name |-> <<>>]
NilPtrFont == [ptr |-> "nilptr", name |-> <<>>]
FontOf(name) == [ptr |-> "font", name |-> name]

\* The zero value of gState: ctm and the text matrices nil, Th = 1.
ZeroGState ==
    [ctm |-> NilM, tc |-> F(0), tw |-> F(0), th |-> F(1), tl |-> F(0),
     tf |-> NilFont, tfs |-> F(0), tm |-> NilM, tlm |-> NilM]

\* The zero value of text.Builder.
ZeroBuilder == [text |-> <<>>, y |-> F(0)]

\* The handler's world: gState, its stack, the builder, and the panic raised.
NoPanic == ""
ZeroMachine ==
    [g |-> ZeroGState, stack |-> <<>>, out |-> ZeroBuilder, panic |-> NoPanic,
     ps |-> [stk |-> <<>>, dicts |-> <<>>, heap |-> <<>>]]

Panics(m, msg) == [m EXCEPT !.panic = msg]

\* A Pop that drops the saved state without restoring it.
PopDrop(m) ==
    LET n == Len(m.stack)
    IN IF n = 0 THEN Panics(m, "index out of range")
       ELSE [m EXCEPT !.stack = SubSeq(m.stack, 1, n - 1)]

\* Graphics.Push
Push(m) ==
    LET g1 == IF m.g.ctm = NilM THEN [m.g EXCEPT !.ctm = identity] ELSE m.g
    IN [m EXCEPT !.g = g1, !.stack = Append(m.stack, g1)]

\* Graphics.Pop: g.stack[n-1] panics on the empty stack.
Pop(m) ==
    LET n == Len(m.stack)
    IN IF n = 0 THEN Panics(m, "index out of range")
       ELSE [m EXCEPT !.g = m.stack[n], !.stack = SubSeq(m.stack, 1, n - 1)]

\* Graphics.Push and Graphics.Pop of the variant that holds the ctm alone:
\* g is the record of its ctm and its stack of saved ctm.
PushCTM(g) ==
    LET c == IF g.ctm = NilM THEN identity ELSE g.ctm
    IN [ctm |-> c, stack |-> Append(g.stack, c), panic |-> g.panic]

PopCTM(g) ==
    LET n == Len(g.stack)
    IN IF n = 0 THEN [g EXCEPT !.panic = "index out of range"]
       ELSE [g EXCEPT !.ctm = g.stack[n], !.stack = SubSeq(g.stack, 1, n - 1)]

\* Graphics.CM of the same variant.
CMCTM(g, a, b, c, d, e, f) ==
    LET mm == Matrix(a, b, c, d, e, f)
    IN [g EXCEPT !.ctm = IF g.ctm = NilM THEN mm ELSE Mul(mm, g.ctm)]

\* Graphics.CM
CM(m, a, b, c, d, e, f) ==
    LET mm == Matrix(a, b, c, d, e, f)
    IN [m EXCEPT !.g.ctm = IF m.g.ctm = NilM THEN mm ELSE Mul(mm, m.g.ctm)]

Tc(m, v) == [m EXCEPT !.g.tc = v]
Tw(m, v) == [m EXCEPT !.g.tw = v]

\* Text.Tz: logTh = math.Log(v / 100).  The field th holds what every use
\* of logTh computes, math.Exp(logTh): v / 100 for v >= 0 and NaN for v < 0.
Tz(m, v) == [m EXCEPT !.g.th = ExpLog(FDiv(v, 100))]
TL(m, v) == [m EXCEPT !.g.tl = v]
Tf(m, font, size) == [m EXCEPT !.g.tf = font, !.g.tfs = size]
BT(m) == [m EXCEPT !.g.tlm = identity, !.g.tm = identity]
ET(m) == [m EXCEPT !.g.tlm = NilM, !.g.tm = NilM]

\* Text.Td: m.Mul(t.tlm) dereferences tlm.
Td(m, tx, ty) ==
    IF m.g.tlm = NilM THEN Panics(m, "nil pointer dereference")
    ELSE LET t == Mul(Matrix(F(1), F(0), F(0), F(1), tx, ty), m.g.tlm)
         IN [m EXCEPT !.g.tlm = t, !.g.tm = t]

\* A TD that moves as Td does and leaves the leading alone.
TDKeepLeading(m, tx, ty) == Td(m, tx, ty)

TD(m, tx, ty) == Td(TL(m, FNeg(ty)), tx, ty)

Tm(m, a, b, c, d, e, f) ==
    LET t == Matrix(a, b, c, d, e, f)
    IN [m EXCEPT !.g.tlm = t, !.g.tm = t]

Tstar(m) == TD(m, F(0), FNeg(m.g.tl))

\* The width, in design units, of every glyph of the page's font.
GlyphWidth == 1000

\* font.Decode for a simple font over the letters of the model: the text is
\* the raw string, w0 the sum of the glyph widths.
Decode(font, raw) == [s |-> raw, w0 |-> F(GlyphWidth * Len(raw))]

\* Text.trm: {tfs*Th, 0, 0; 0, tfs, 0; 0, 0, 1} * tm * ctm (tm, ctm non-nil).
trm(g, ctm) ==
    Mul(Mul(Matrix(FMul(g.tfs, g.th), F(0), F(0), g.tfs, F(0), F(0)), g.tm),
        ctm)

\* The number of characters of s that are, or are not, a space.
CountSpaces(s) == Cardinality({i \in 1..Len(s) : s[i] = " "})

\* Text.displace on a non-nil tm.
displace(g, v, nc, nw) ==
    LET tx == FMul(FAdd(FAdd(FMul(FDiv(v, 1000), g.tfs), FMul(nc, g.tc)),
                        FMul(nw, g.tw)),
                   g.th)
    IN [g EXCEPT !.tm = Mul(Matrix(F(1), F(0), F(0), F(1), tx, F(0)), g.tm)]

\* Text.TJDisplace: displace(-v, 0, 0) dereferences tm.
TJDisplace(m, v) ==
    IF m.g.tm = NilM THEN Panics(m, "nil pointer dereference")
    ELSE [m EXCEPT !.g = displace(m.g, FNeg(v), F(0), F(0))]

\* Builder.Render on the page's builder, whose operands are float64.
BuilderRender(out, x, y, w, h, font, content) ==
    IF Len(content) = 0 THEN out
    ELSE [text |-> addF(out.text, h, Weight(font),
                        SeparatorF(Len(out.text) = 0, out.y, y, h) \o content),
          y    |-> y]

\* Graphics.Tj and Text.Tj: ctm defaults to identity, then t.tf.Name()
\* dereferences the font and textDims dereferences tm.
Tj(m, raw) ==
    LET m1 == IF m.g.ctm = NilM THEN [m EXCEPT !.g.ctm = identity] ELSE m
    IN IF m1.g.tf.ptr # "font" THEN Panics(m1, "nil pointer dereference")
       ELSE IF m1.g.tm = NilM THEN Panics(m1, "nil pointer dereference")
       ELSE LET fn  == m1.g.tf.name
                dec == Decode(m1.g.tf, raw)
                rm  == trm(m1.g, m1.g.ctm)
                nw  == CountSpaces(dec.s)
                nc  == Len(dec.s) - nw
                g2  == displace(m1.g, dec.w0, F(nc), F(nw))
                rm2 == trm(g2, g2.ctm)
            IN [m1 EXCEPT !.g = g2,
                          !.out = BuilderRender(m1.out, rm[3][1], rm[3][2],
                                                FSub(rm2[3][1], rm[3][1]),
                                                rm[2][2], fn, dec.s)]

RECURSIVE TJ(_, _, _)
\* Page.Text, case "TJ": the elements of the array from index i on; a
\* string is shown, an integer and a real displace, any other is skipped.
TJ(m, arr, i) ==
    IF m.panic # NoPanic \/ i > Len(arr) THEN m
    ELSE LET e == arr[i]
         IN TJ(CASE e.k = "str"  -> Tj(m, RawString(e))
                 [] e.k = "num"  -> TJDisplace(m, F(Int64(e)))
                 [] e.k = "real" -> TJDisplace(m, F(Float64(e)))
                 [] OTHER        -> m,
               arr, i + 1)

\* The resource name and the BaseFont of the page's font.
F1 == "F1"
PageFonts == {{}, {<<F1, FontFBold>>}}

\* decoders[name] over the page's fonts, a set of <<name, BaseFont>> pairs.
Decoder(decoders, name) ==
    IF \E d \in decoders : d[1] = name
    THEN FontOf((CHOOSE d \in decoders : d[1] = name)[2])
    ELSE NilPtrFont

\* args[i] of the handler is there (0-based i, as in the code).
Has(args, i) == Len(args) > i
OutOfRange(m) == Panics(m, "index out of range")

\* Step f applied unless a panic is already under way.
ThenTj(m, args) ==
    IF m.panic # NoPanic THEN m
    ELSE IF ~Has(args, 0) THEN OutOfRange(m)
    ELSE Tj(m, RawString(args[1]))

ThenTstarTj(m, args) ==
    IF m.panic # NoPanic THEN m ELSE ThenTj(Tstar(m), args)

\* Page.Text, lines 108-169: the handler given to interpret.
Handler(m, decoders, op, args) ==
    CASE op = "q"  -> Push(m)
      [] op = "Q"  -> Pop(m)
      [] op = "cm" ->
           IF ~Has(args, 5) THEN OutOfRange(m)
           ELSE CM(m, F(Float64(args[1])), F(Float64(args[2])), F(Float64(args[3])),
                   F(Float64(args[4])), F(Float64(args[5])), F(Float64(args[6])))
      [] op = "Tc" -> IF ~Has(args, 0) THEN OutOfRange(m)
                      ELSE Tc(m, F(Float64(args[1])))
      [] op = "Tw" -> IF ~Has(args, 0) THEN OutOfRange(m)
                      ELSE Tw(m, F(Float64(args[1])))
      [] op = "Tz" -> IF ~Has(args, 0) THEN OutOfRange(m)
                      ELSE Tz(m, F(Float64(args[1])))
      [] op = "TL" -> IF ~Has(args, 0) THEN OutOfRange(m)
                      ELSE TL(m, F(Float64(args[1])))
      [] op = "BT" -> BT(m)
      [] op = "ET" -> ET(m)
      [] op = "Td" -> IF ~Has(args, 1) THEN OutOfRange(m)
                      ELSE Td(m, F(Float64(args[1])), F(Float64(args[2])))
      [] op = "TD" -> IF ~Has(args, 1) THEN OutOfRange(m)
                      ELSE TD(m, F(Float64(args[1])), F(Float64(args[2])))
      [] op = "Tm" ->
           IF ~Has(args, 5) THEN OutOfRange(m)
           ELSE Tm(m, F(Float64(args[1])), F(Float64(args[2])), F(Float64(args[3])),
                   F(Float64(args[4])), F(Float64(args[5])), F(Float64(args[6])))
      [] op = "T*" -> Tstar(m)
      [] op = "Tf" -> IF ~Has(args, 1) THEN OutOfRange(m)
                      ELSE Tf(m, Decoder(decoders, Name(args[1])),
                              F(Float64(args[2])))
      [] op = "\"" ->
           IF ~Has(args, 0) THEN OutOfRange(m)
           ELSE LET m1 == Tw(m, F(Float64(args[1])))
                IN IF ~Has(args, 1) THEN OutOfRange(m1)
                   ELSE ThenTstarTj(Tc(m1, F(Float64(args[2]))),
                                    SubSeq(args, 3, Len(args)))
      [] op = "'"  -> ThenTstarTj(m, args)
      [] op = "Tj" -> ThenTj(m, args)
      [] op = "TJ" -> IF ~Has(args, 0) THEN OutOfRange(m)
                      ELSE TJ(m, args[1].a, 1)
      [] OTHER     -> m

(***************************************************************************)
(* interpret: the operand stack and the dictionary stack                   *)
(***************************************************************************)
\* The tokens interpret reads: a keyword, or an object that readObject
\* returns as it is: an integer, a real, a name, a string.  An array literal
\* "[ ... ]" is the one token of the array that readObject builds from it,
\* so that "[" never comes as a keyword of its own; dictionary literals are
\* left out of the streams.
Kw(s)      == <<"kw", s>>
IntTok(n)  == <<"int", n>>
RealTok(n) == <<"real", n>>
NameTok(s) == <<"name", s>>
StringTok(s) == <<"str", s>>
ArrayTok(a)  == <<"arr", a>>

\* The values on the stack: the zero value, an integer, a name, or a
\* types.Dict, which is a reference to a map.
NullVal    == <<"null", 0>>
DictVal(r) == <<"dict", r>>

\* stack.Pop: the zero value on the empty stack.
stkTop(stk)  == IF Len(stk) = 0 THEN NullVal ELSE stk[Len(stk)]
stkDrop(stk) == IF Len(stk) = 0 THEN stk ELSE SubSeq(stk, 1, Len(stk) - 1)

\* A types.Dict is a set of <<key, value>> pairs with one pair per key.
HasKey(d, key)   == \E kv \in d : kv[1] = key
ValueAt(d, key)  == (CHOOSE kv \in d : kv[1] = key)[2]
Store(d, key, v) == {kv \in d : kv[1] # key} \cup {<<key, v>>}

\* What interpret holds between two tokens.
Interp(stk, dicts, heap, calls, panic) ==
    [stk |-> stk, dicts |-> dicts, heap |-> heap, calls |-> calls,
     panic |-> panic]
InterpPanics(s, msg) == [s EXCEPT !.panic = msg]

\* A search from the bottom of the dict stack, which finds the oldest
\* binding.
RECURSIVE FindBottomUp(_, _, _, _)
FindBottomUp(heap, dicts, i, kw) ==
    IF i < 1 \/ i > Len(dicts) THEN 0
    ELSE IF HasKey(heap[dicts[i]], kw) THEN i
    ELSE FindBottomUp(heap, dicts, i + 1, kw)
FindOldest(heap, dicts, i, kw) ==
    FindBottomUp(heap, dicts, 1, kw)

RECURSIVE FindBinding(_, _, _, _)
\* interpret, lines 70-75: the index of the first dict from i down that
\* binds kw, 0 when there is none.
FindBinding(heap, dicts, i, kw) ==
    IF i < 1 THEN 0
    ELSE IF HasKey(heap[dicts[i]], kw) THEN i
    ELSE FindBinding(heap, dicts, i - 1, kw)

\* Page.Text, lines 108-113: the handler pops every value as its operands;
\* the call is recorded with its keyword and the stack it was given.
Do(s, kw) ==
    [s EXCEPT !.calls = Append(@, [op |-> kw, stk |-> s.stk]), !.stk = <<>>]

\* interpret, lines 67-127: one token.
Dispatch(s, tok) ==
    IF tok[1] # "kw" THEN [s EXCEPT !.stk = Append(@, tok)]
    ELSE LET kw == tok[2]
             n  == Len(s.dicts)
         IN CASE kw = "null" -> [s EXCEPT !.stk = Append(@, NullVal)]
              [] kw \in {"]", ">>"} ->
                   InterpPanics(s, "unexpected keyword parsing object")
              [] kw = "dict" ->
                   [s EXCEPT !.stk = Append(stkDrop(@),
                                            DictVal(Len(s.heap) + 1)),
                             !.heap = Append(@, {})]
              [] kw = "currentdict" ->
                   IF n = 0 THEN InterpPanics(s, "no current dictionary")
                   ELSE [s EXCEPT !.stk = Append(@, DictVal(s.dicts[n]))]
              [] kw = "begin" ->
                   LET d == stkTop(s.stk)
                   IN IF d[1] # "dict"
                      THEN InterpPanics([s EXCEPT !.stk = stkDrop(@)],
                                        "cannot begin non-dict")
                      ELSE [s EXCEPT !.stk = stkDrop(@),
                                     !.dicts = Append(@, d[2])]
              [] kw = "end" ->
                   IF n = 0 THEN InterpPanics(s, "mismatched begin/end")
                   ELSE [s EXCEPT !.dicts = SubSeq(@, 1, n - 1)]
              [] kw = "def" ->
                   IF n = 0 THEN InterpPanics(s, "def without open dict")
                   ELSE LET val == stkTop(s.stk)
                            key == stkTop(stkDrop(s.stk))
                            s2  == [s EXCEPT !.stk = stkDrop(stkDrop(@))]
                        IN IF key[1] # "name"
                           THEN InterpPanics(s2, "def of non-name")
                           ELSE [s2 EXCEPT !.heap[s.dicts[n]] =
                                               Store(@, key[2], val)]
              [] kw = "pop" -> [s EXCEPT !.stk = stkDrop(@)]
              [] kw = "dup" ->
                   LET val == stkTop(s.stk)
                   IN [s EXCEPT !.stk = Append(Append(stkDrop(@), val), val)]
              [] OTHER ->
                   LET i == FindBinding(s.heap, s.dicts, n, kw)
                   IN IF i # 0
                      THEN [s EXCEPT !.stk =
                               Append(@, ValueAt(s.heap[s.dicts[i]], kw))]
                      ELSE Do(s, kw)

\* The token of an operand of the content stream, and the value that the
\* handler pops for an entry of interpret's stack.
TokOf(v) ==
    CASE v.k = "num"  -> IntTok(v.n)
      [] v.k = "real" -> RealTok(v.n)
      [] v.k = "name" -> NameTok(v.s)
      [] v.k = "str"  -> StringTok(v.s)
      [] v.k = "arr"  -> ArrayTok(v.a)
      [] OTHER        -> Kw("null")
ValOf(t) ==
    CASE t[1] = "int"  -> NumV(t[2])
      [] t[1] = "real" -> RealV(t[2])
      [] t[1] = "name" -> NameV(t[2])
      [] t[1] = "str"  -> StrV(t[2])
      [] t[1] = "arr"  -> ArrV(t[2])
      [] t[1] = "dict" -> DictV(t[2])
      [] OTHER         -> NullV

RECURSIVE Feed(_, _, _)
\* interpret over the tokens of the operands args[i..].
Feed(s, args, i) ==
    IF i > Len(args) THEN s ELSE Feed(Dispatch(s, TokOf(args[i])), args, i + 1)

\* What interpret keeps between two keywords: its stack, the open
\* dictionaries and the maps they refer to.
PsState(s) == [stk |-> s.stk, dicts |-> s.dicts, heap |-> s.heap]
ZeroPs == [stk |-> <<>>, dicts |-> <<>>, heap |-> <<>>]

\* interpret, lines 62-127, from one keyword to the next: the operands args
\* are pushed, then the keyword op is a keyword of interpret's own, a key of
\* an open dictionary, or an operator that do, the handler of Page.Text, is
\* called with; call is the operator and the operands the handler got, or
\* the empty instruction when it was not called.
interpretPs(ps, op, args) ==
    Dispatch(Feed(Interp(ps.stk, ps.dicts, ps.heap, <<>>, NoPanic), args, 1),
             Kw(op))
Called(s) ==
    IF s.panic = NoPanic /\ s.calls # <<>>
    THEN [op |-> s.calls[1].op,
          args |-> [i \in 1..Len(s.calls[1].stk) |-> ValOf(s.calls[1].stk[i])]]
    ELSE [op |-> "", args |-> <<>>]
\* The machine after interpret has come to s: the handler has run when s
\* holds a call.
HandlerAfter(m, decoders, s, c) ==
    IF s.panic # NoPanic THEN Panics([m EXCEPT !.ps = PsState(s)], s.panic)
    ELSE IF c.op = "" THEN [m EXCEPT !.ps = PsState(s)]
    ELSE Handler([m EXCEPT !.ps = PsState(s)], decoders, c.op, c.args)
AfterPs(m, decoders, s) == HandlerAfter(m, decoders, s, Called(s))
interpret(m, decoders, op, args) ==
    AfterPs(m, decoders, interpretPs(m.ps, op, args))

\* Page.Text, lines 91-96, the deferred function: r is what recover() returns
\* (NoPanic for nil); panic is the panic still under way when it ends.
DeferredNoRecover(r, result, err) ==
    [result |-> result, err |-> err, panic |-> r]

Deferred(r, result, err) ==
    IF r # NoPanic
    THEN [result |-> <<>>, err |-> "failed to read page text", panic |-> NoPanic]
    ELSE [result |-> result, err |-> err, panic |-> NoPanic]

\* The operators a content stream is made of, with their operands: complete,
\* or too few; a fractional and a negative horizontal scale; integer and
\* real displacements.
Instr(op, args) == [op |-> op, args |-> args]
Instrs ==
    { Instr("q", <<>>), Instr("Q", <<>>),
      Instr("cm", <<NumV(2), NumV(0), NumV(0), NumV(2), NumV(0), NumV(0)>>),
      Instr("cm", <<NumV(2)>>),
      Instr("Tc", <<NumV(1)>>), Instr("Tw", <<>>),
      Instr("Tz", <<NumV(150)>>), Instr("Tz", <<NumV(-100)>>),
      Instr("TL", <<NumV(12)>>),
      Instr("BT", <<>>), Instr("ET", <<>>),
      Instr("Td", <<NumV(0), NumV(-12)>>), Instr("Td", <<NumV(5)>>),
      Instr("TD", <<NumV(0), NumV(-14)>>),
      Instr("Tm", <<NumV(1), NumV(0), NumV(0), NumV(1), NumV(10), NumV(100)>>),
      Instr("T*", <<>>),
      Instr("Tf", <<NameV(F1), NumV(10)>>), Instr("Tf", <<NameV(F1)>>),
      Instr("\"", <<NumV(1), NumV(1), StrV(<<"a">>)>>),
      Instr("\"", <<NumV(1)>>),
      Instr("'", <<StrV(<<"b">>)>>),
      Instr("Tj", <<StrV(<<"c">>)>>), Instr("Tj", <<>>),
      Instr("TJ", <<ArrV(<<StrV(<<"d">>), NumV(-1000), StrV(<<"e">>)>>)>>),
      Instr("TJ", <<ArrV(<<RealV(500), StrV(<<"f">>)>>)>>),
      Instr("TJ", <<>>),
      Instr("re", <<NumV(0), NumV(0), NumV(1), NumV(1)>>),
      Instr("end", <<>>) }

\* The keywords that interpret handles itself, with their operands; def
\* binds the operator Td in the open dictionary.
PsInstrs ==
    { Instr("dict", <<NumV(1)>>), Instr("begin", <<>>),
      Instr("def", <<NameV("Td"), NumV(5)>>), Instr("currentdict", <<>>),
      Instr("pop", <<>>), Instr("dup", <<>>) }

ContentIdle ==
    /\ c_pc = "idle"
    /\ c_decoders = {}
    /\ c_g = ZeroGState
    /\ c_stack = <<>>
    /\ c_out = ZeroBuilder
    /\ c_panic = NoPanic
    /\ c_ps = ZeroPs
    /\ c_last = Instr("", <<>>)
    /\ c_nops = 0
    /\ c_result = <<>>
    /\ c_intext = FALSE
    /\ c_err = "none"

\* Page.Text, lines 98-106: the decoders of the page's fonts, the zero Builder
\* and the zero Graphics.
ContentInit ==
    /\ c_pc = "run"
    /\ c_decoders \in PageFonts
    /\ c_g = ZeroGState
    /\ c_stack = <<>>
    /\ c_out = ZeroBuilder
    /\ c_panic = NoPanic
    /\ c_ps = ZeroPs
    /\ c_last = Instr("", <<>>)
    /\ c_nops = 0
    /\ c_result = <<>>
    /\ c_intext = FALSE
    /\ c_err = "none"

\* interpret reads operands and the keyword after them, and runs it.
Operator(op, args) ==
    /\ c_pc = "run"
    /\ c_nops < MaxOps
    /\ LET m == [g |-> c_g, stack |-> c_stack, out |-> c_out, panic |-> NoPanic,
                 ps |-> c_ps]
       IN \E r \in {interpret(m, c_decoders, op, args)},
             c \in {Called(interpretPs(c_ps, op, args))} :
          /\ c_g' = r.g
          /\ c_stack' = r.stack
          /\ c_out' = r.out
          /\ c_ps' = r.ps
          /\ c_panic' = r.panic
          /\ c_pc' = IF r.panic # NoPanic THEN "panic" ELSE "run"
          /\ c_last' = Instr(c.op, c.args)
          /\ c_intext' = IF c.op = "BT" THEN TRUE
                         ELSE IF c.op = "ET" THEN FALSE ELSE c_intext
    /\ c_nops' = c_nops + 1
    /\ UNCHANGED <<c_decoders, c_result, c_err>>
    /\ UNCHANGED notC

\* Page.Text, line 172 and the deferred function: the stream has ended.
Return ==
    /\ c_pc = "run"
    /\ LET d == Deferred(NoPanic, c_out.text, "nil")
       IN /\ c_result' = d.result
          /\ c_err' = d.err
          /\ c_panic' = d.panic
          /\ c_pc' = IF d.panic # NoPanic THEN "propagated" ELSE "returned"
    /\ UNCHANGED <<c_decoders, c_g, c_stack, c_out, c_ps, c_last, c_nops,
                   c_intext>>
    /\ UNCHANGED notC

\* A panic unwinds Page.Text: the deferred function runs.
Recover ==
    /\ c_pc = "panic"
    /\ LET d == Deferred(c_panic, c_result, c_err)
       IN /\ c_result' = d.result
          /\ c_err' = d.err
          /\ c_panic' = d.panic
          /\ c_pc' = IF d.panic # NoPanic THEN "propagated" ELSE "returned"
    /\ UNCHANGED <<c_decoders, c_g, c_stack, c_out, c_ps, c_last, c_nops,
                   c_intext>>
    /\ UNCHANGED notC

(***************************************************************************)
(* NewReaderEncrypted: the header and the tail of the file                 *)
(***************************************************************************)
MaxFill == 100

\* const endChunk = 100
endChunk == 100

\* A zero byte: what make([]byte, n) holds where ReadAt wrote nothing.
Nul == "NUL"

PdfMagic  == <<"%", "P", "D", "F", "-", "1", ".">>
EOFMarker == <<"%", "%", "E", "O", "F">>
Startxref == <<"s", "t", "a", "r", "t", "x", "r", "e", "f">>

\* n copies of the byte c.
Repeat(c, n) == [i \in 1..n |-> c]

\* f.ReadAt(buf, off) into a fresh buffer of n bytes: a negative offset is an
\* error that leaves the buffer as it is; bytes past the end are not written.
ReadAt(file, n, off) ==
    IF off < 0 THEN Repeat(Nul, n)
    ELSE [i \in 1..n |-> IF off + i <= Len(file) THEN file[off + i] ELSE Nul]

\* NewReaderEncrypted, line 324 (buf has 10 bytes; the code's indices are
\* 0-based).
InvalidHeader(buf) ==
    \/ ~HasPrefix(buf, PdfMagic)
    \/ buf[8] \notin {"0", "1", "2", "3", "4", "5", "6", "7"}
    \/ (buf[9] # "\r" /\ buf[9] # "\n")

\* NewReaderEncrypted, line 331: one evaluation of the loop condition
\* "len(buf) > 0 && buf[len(buf)-1] == '\n' || buf[len(buf)-1] == '\r'".
TrimCond(buf) ==
    IF Len(buf) > 0 /\ buf[Len(buf)] = "\n" THEN "cut"
    ELSE IF Len(buf) = 0 THEN "panic"
    ELSE IF buf[Len(buf)] = "\r" THEN "cut"
    ELSE "exit"

RECURSIVE TrimRight(_, _)
\* bytes.TrimRight(buf, cutset)
TrimRight(buf, cutset) ==
    IF Len(buf) > 0 /\ buf[Len(buf)] \in cutset
    THEN TrimRight(SubSeq(buf, 1, Len(buf) - 1), cutset)
    ELSE buf

\* bytes.LastIndex(buf, bs): the 0-based index of the last occurrence, or -1.
LastIndex(buf, bs) ==
    LET at == {i \in 0..(Len(buf) - Len(bs)) :
                  SubSeq(buf, i + 1, i + Len(bs)) = bs}
    IN IF at = {} THEN -1 ELSE CHOOSE i \in at : \A j \in at : j <= i

RECURSIVE findLastLineFrom(_, _, _)
\* findLastLine, lines 644-653: the loop, entered with the given max.
findLastLineFrom(buf, bs, max) ==
    LET i == LastIndex(SubSeq(buf, 1, max), bs)
    IN IF i <= 0 \/ i + Len(bs) >= Len(buf) THEN -1
       ELSE IF /\ buf[i] \in {"\n", "\r"}
               /\ buf[i + Len(bs) + 1] \in {"\n", "\r"}
       THEN i
       ELSE findLastLineFrom(buf, bs, i)

findLastLine(buf, s) == findLastLineFrom(buf, s, Len(buf))

\* The sources: a header, a filling of MaxFill equal bytes or none, a tail.
Headers ==
    { PdfMagic \o <<"4", "\n">>, PdfMagic \o <<"7", "\r">>,
      PdfMagic \o <<"8", "\n">>, PdfMagic \o <<"4", " ">>,
      <<"%", "P", "D", "F", "-", "2", ".", "0", "\n">>, <<>> }
Tails ==
    { <<"\n">> \o Startxref \o <<"\n", "9", "\n">> \o EOFMarker \o <<"\n">>,
      <<"\n">> \o Startxref \o <<"\n", "9", "\n">> \o EOFMarker \o <<"\r", "\n", " ">>,
      <<"x">> \o Startxref \o <<"\n", "9", "\n">> \o EOFMarker,
      EOFMarker \o <<"\n">>,
      <<"\n">> \o Startxref \o <<"\n", "9", "\n", "%", "%", "E", "O">>,
      <<>> }
Fillers == {"x", "\n", "\r"}
Files ==
    { h \o Repeat(c, n) \o t :
        h \in Headers, c \in Fillers, n \in {0, MaxFill}, t \in Tails }

HeaderIdle ==
    /\ h_file = <<>>
    /\ h_pc = "idle"
    /\ h_buf = <<>>
    /\ h_err = "none"
    /\ h_i = -1

HeaderInit ==
    /\ h_file \in Files
    /\ h_pc = "start"
    /\ h_buf = <<>>
    /\ h_err = "none"
    /\ h_i = -1

\* NewReaderEncrypted, lines 322-330: the header is read and tested, then the
\* last endChunk bytes are read.
CheckHeader ==
    /\ h_pc = "start"
    /\ LET buf == ReadAt(h_file, 10, 0)
       IN IF InvalidHeader(buf)
          THEN /\ h_pc' = "returned"
               /\ h_err' = "not a PDF file: invalid header"
               /\ h_buf' = buf
          ELSE /\ h_pc' = "trim"
               /\ h_buf' = ReadAt(h_file, endChunk, Len(h_file) - endChunk)
               /\ UNCHANGED h_err
    /\ UNCHANGED <<h_file, h_i>>
    /\ UNCHANGED notH

\* NewReaderEncrypted, lines 331-333: one turn of the loop that drops
\* trailing line ends; indexing the emptied buffer panics.
TrimStep ==
    /\ h_pc = "trim"
    /\ LET c == TrimCond(h_buf)
       IN /\ h_pc' = CASE c = "cut" -> "trim"
                       [] c = "exit" -> "trimmed"
                       [] OTHER -> "panic"
          /\ h_buf' = IF c = "cut" THEN SubSeq(h_buf, 1, Len(h_buf) - 1)
                      ELSE h_buf
    /\ UNCHANGED <<h_file, h_err, h_i>>
    /\ UNCHANGED notH

\* NewReaderEncrypted, lines 334-337.
CheckEOF ==
    /\ h_pc = "trimmed"
    /\ LET buf == TrimRight(h_buf, {"\r", "\n", "\t", " "})
       IN /\ h_buf' = buf
          /\ IF ~HasSuffix(buf, EOFMarker)
             THEN /\ h_pc' = "returned"
                  /\ h_err' = "not a PDF file: missing %%EOF"
             ELSE /\ h_pc' = "eof"
                  /\ UNCHANGED h_err
    /\ UNCHANGED <<h_file, h_i>>
    /\ UNCHANGED notH

\* NewReaderEncrypted, lines 338-341.
FindStartxref ==
    /\ h_pc = "eof"
    /\ LET i == findLastLine(h_buf, Startxref)
       IN /\ h_i' = i
          /\ IF i < 0
             THEN /\ h_pc' = "returned"
                  /\ h_err' = "malformed PDF file: missing final startxref"
             ELSE /\ h_pc' = "startxref"
                  /\ UNCHANGED h_err
    /\ UNCHANGED <<h_file, h_buf>>
    /\ UNCHANGED notH

(***************************************************************************)
(* decrypter.New and the password tries of NewReaderEncrypted              *)
(*                                                                         *)
(* MD5, SHA-2, RC4 and AES are taken as injective: a digest or a           *)
(* ciphertext is the tuple of what went into it, so that two of them are   *)
(* equal exactly when their inputs are.                                    *)
(***************************************************************************)
\* The passwords tried and the passwords files are written with.
Passwords == {<<>>, <<"a">>, <<"b">>}

passwordPad ==
    <<"28", "BF", "4E", "5E", "4E", "75", "8A", "41",
      "64", "00", "4E", "56", "FF", "FA", "01", "08",
      "2E", "2E", "00", "B6", "D0", "68", "3E", "80",
      "2F", "0C", "A9", "FE", "64", "53", "69", "7A">>

\* decrypter.New, lines 55-60: the password cut or padded to 32 bytes.
Pad32(pw) ==
    IF Len(pw) >= 32 THEN SubSeq(pw, 1, 32)
    ELSE pw \o SubSeq(passwordPad, 1, 32 - Len(pw))

\* decrypter.New, lines 54-75: the RC4 key of revisions 2 to 4.
FileKey(pw, r, n) ==
    IF r >= 3 THEN <<"md5x51", Pad32(pw), n \div 8>>
    ELSE <<"md5", Pad32(pw), 5>>

\* decrypter.New, lines 82-103: the value w that U has to start with.
UserW(key, r) ==
    IF r = 2 THEN <<"rc4", key, "pad">> ELSE <<"rc4x20", key, "md5(pad,id)">>

\* hashR6(password, salt) of newR6 (the password is cut to 127 bytes).
hashR6(pw, salt) ==
    <<"hashR6", IF Len(pw) > 127 THEN SubSeq(pw, 1, 127) ELSE pw, salt>>

\* The Encrypt dictionary a writer produces for user password upw; the
\* other parameters make it well formed or malformed.
EncryptDict(filter, v, r, length, cf, olen, ulen, hasUE, permsOK, upw) ==
    [Filter |-> filter, V |-> v, R |-> r, Length |-> length, CF |-> cf,
     O |-> olen, ULen |-> ulen,
     U |-> IF r = 6 THEN hashR6(upw, "vsalt")
           ELSE UserW(FileKey(upw, r, IF length = 0 THEN 40 ELSE length), r),
     UE |-> hasUE, Perms |-> permsOK]

\* validateVersion: CF is "none" (no CF dictionary or no StmF/StrF),
\* "nofilter" (CF lacks the filter StmF names: cf[stmf].(types.Dict) panics),
\* or the CFM of the filter.
validateVersion(v, encrypt) ==
    IF v \in {1, 2} THEN "true"
    ELSE IF v \notin {4, 5} THEN "false"
    ELSE IF encrypt.CF = "none" THEN "false"
    ELSE IF encrypt.CF = "nofilter" THEN "panic"
    ELSE IF encrypt.CF # (IF v = 5 THEN "AESV3" ELSE "AESV2") THEN "false"
    ELSE "true"

Failed(err) == [err |-> err, panic |-> FALSE, key |-> <<>>]
Panicked    == [err |-> "none", panic |-> TRUE, key |-> <<>>]
Decrypted(key) == [err |-> "nil", panic |-> FALSE, key |-> key]

ErrInvalidPassword == "encrypted PDF: invalid password"

\* newR6
newR6(password, encrypt) ==
    IF encrypt.ULen < 48 THEN Failed("bad r6 U")
    ELSE IF hashR6(password, "vsalt") # encrypt.U
    THEN Failed("can't determine user key")
    ELSE IF ~encrypt.Perms THEN Failed("params didn't validate")
    ELSE Decrypted(<<"aes-cbc", hashR6(password, "ksalt"), "UE">>)

\* decrypter.New
New(password, encrypt) ==
    LET n == IF encrypt.Length = 0 THEN 40 ELSE encrypt.Length
        v == encrypt.V
        r == encrypt.R
        ok == validateVersion(v, encrypt)
    IN IF n % 8 # 0 \/ n < 40 \/ (n > 128 /\ n # 256)
       THEN Failed("malformed PDF: bad encryption key length")
       ELSE IF ok = "panic" THEN Panicked
       ELSE IF ok = "false" THEN Failed("unsupported PDF: encryption version")
       ELSE IF r < 2 \/ r = 5 \/ r > 6
       THEN Failed("malformed PDF: encryption revision")
       ELSE IF r = 6
       THEN IF ~encrypt.UE THEN Panicked \* encrypt["UE"].(string)
            ELSE newR6(password, encrypt)
       ELSE IF encrypt.O # 32 \/ encrypt.ULen # 32
       THEN Failed("malformed PDF: missing O= or U= encryption parameters")
       ELSE IF r >= 3 /\ n \div 8 > 16 THEN Panicked \* key[:n/8] of 16 bytes
       ELSE LET key == FileKey(password, r, n)
            IN IF encrypt.U # UserW(key, r) THEN Failed(ErrInvalidPassword)
               ELSE Decrypted(key)

\* Reader.initEncrypt
initEncrypt(trailer, password) ==
    IF trailer.Encrypt.Filter # "Standard"
    THEN Failed("unsupported PDF: encryption filter")
    ELSE IF ~trailer.ID THEN Failed("malformed PDF: missing ID in trailer")
    ELSE New(password, trailer.Encrypt)

\* <<V, R, Length, CF>> of the Encrypt dictionaries of the model: the
\* supported revisions well formed, and the malformed combinations.
GoodProfiles ==
    { <<1, 2, 0, "none">>, <<2, 3, 128, "none">>,
      <<4, 4, 128, "AESV2">>, <<5, 6, 256, "AESV3">> }
BadProfiles ==
    { <<3, 3, 128, "none">>, <<2, 5, 128, "none">>, <<2, 3, 44, "none">>,
      <<2, 3, 256, "none">>, <<4, 4, 128, "none">>,
      <<4, 4, 128, "nofilter">>, <<5, 6, 256, "AESV2">> }
EntryLens == {<<32, 32>>, <<32, 48>>, <<0, 32>>, <<32, 0>>}

Trailers ==
    { [hasEncrypt |-> he, ID |-> id,
       Encrypt |-> EncryptDict(f, p[1], p[2], p[3], p[4], l[1], l[2],
                               ue, perms, upw)] :
        he \in BOOLEAN, id \in BOOLEAN, f \in {"Standard", "Other"},
        p \in GoodProfiles \cup BadProfiles, l \in EntryLens,
        ue \in BOOLEAN, perms \in BOOLEAN, upw \in {<<>>, <<"a">>} }

CryptIdle ==
    /\ e_pc = "idle"
    /\ e_trailer = [hasEncrypt |-> FALSE, ID |-> FALSE,
                    Encrypt |-> EncryptDict("Other", 0, 0, 0, "none", 0, 0,
                                            FALSE, FALSE, <<>>)]
    /\ e_upw = <<>>
    /\ e_pw = <<>>
    /\ e_first = "none"
    /\ e_err = "none"
    /\ e_dec = <<>>

\* NewReaderEncrypted has read the xref and the trailer (line 363); upw is
\* the user password the file was written with.
CryptInit ==
    /\ e_pc = "start"
    /\ e_upw \in {<<>>, <<"a">>}
    /\ e_trailer \in {t \in Trailers :
                        t.Encrypt.U = EncryptDict("Standard", t.Encrypt.V,
                            t.Encrypt.R, t.Encrypt.Length, "none", 0, 0,
                            FALSE, FALSE, e_upw).U}
    /\ e_pw \in Passwords
    /\ e_first = "none"
    /\ e_err = "none"
    /\ e_dec = <<>>

\* NewReaderEncrypted, line 371: the second password is not tried.
GiveUp(pw, err) == pw = <<>> \/ err # ErrInvalidPassword

\* NewReaderEncrypted, lines 364-366.
CheckEncrypt ==
    /\ e_pc = "start"
    /\ IF ~e_trailer.hasEncrypt
       THEN e_pc' = "returned" /\ e_err' = "nil"
       ELSE e_pc' = "first" /\ UNCHANGED e_err
    /\ UNCHANGED <<e_trailer, e_upw, e_pw, e_first, e_dec>>
    /\ UNCHANGED notE

\* NewReaderEncrypted, lines 367-373: initEncrypt("").
FirstTry ==
    /\ e_pc = "first"
    /\ LET t == initEncrypt(e_trailer, <<>>)
       IN IF t.panic
          THEN e_pc' = "panic" /\ UNCHANGED <<e_first, e_err, e_dec>>
          ELSE IF t.err = "nil"
          THEN /\ e_pc' = "returned" /\ e_err' = "nil" /\ e_dec' = t.key
               /\ UNCHANGED e_first
          ELSE IF GiveUp(e_pw, t.err)
          THEN /\ e_pc' = "returned" /\ e_err' = t.err
               /\ UNCHANGED <<e_first, e_dec>>
          ELSE /\ e_pc' = "second" /\ e_first' = t.err
               /\ UNCHANGED <<e_err, e_dec>>
    /\ UNCHANGED <<e_trailer, e_upw, e_pw>>
    /\ UNCHANGED notE

\* NewReaderEncrypted, lines 375-378: initEncrypt(pw).
SecondTry ==
    /\ e_pc = "second"
    /\ LET t == initEncrypt(e_trailer, e_pw)
       IN IF t.panic
          THEN e_pc' = "panic" /\ UNCHANGED <<e_err, e_dec>>
          ELSE IF t.err = "nil"
          THEN e_pc' = "returned" /\ e_err' = "nil" /\ e_dec' = t.key
          ELSE e_pc' = "returned" /\ e_err' = e_first /\ UNCHANGED e_dec
    /\ UNCHANGED <<e_trailer, e_upw, e_pw, e_first>>
    /\ UNCHANGED notE

(***************************************************************************)
(* readXrefTable / readXrefStream: the xref sections along the Prev chain  *)
(*                                                                         *)
(* The file is read as it comes: each action takes the next subsection     *)
(* header, entry or trailer of the section being read as its input.        *)
(***************************************************************************)
MaxSections == 2

\* The object numbers of the model.
Objs == 0..3

\* types.Xref, with Ptr flattened into ID and Gen and Stream into its ID.
Xref(id, gen, inStream, stream, offset) ==
    [ID |-> id, Gen |-> gen, InStream |-> inStream, Stream |-> stream,
     Offset |-> offset]

ZeroXref == Xref(0, 0, FALSE, 0, 0)

\* xref.Ptr == types.Objptr{}
ZeroPtr(e) == e.ID = 0 /\ e.Gen = 0

\* table[:n] for n beyond len(table), within the capacity: the hidden
\* elements are zero.
Extend(table, n) ==
    table \o [i \in 1..(n - Len(table)) |-> ZeroXref]

\* append(table[:cap(table)], types.Xref{}): the new capacity, as the Go
\* runtime grows a small slice (doubling).
GrowCap(cap) == IF cap = 0 THEN 1 ELSE 2 * cap

RECURSIVE Grow(_, _)
\* "for cap(table) <= x { table = append(table[:cap(table)], Xref{}) }" on
\* a table of length len and capacity cap: the resulting <<len, cap>>.
Grow(lc, x) ==
    IF lc[2] <= x THEN Grow(<<lc[2] + 1, GrowCap(lc[2])>>, x) ELSE lc

\* readXrefTableData, line 633: the entry of object x is stored.
TablePopulates(table, x, alloc) ==
    alloc = "n" /\ (Len(table) <= x \/ table[x + 1].Offset = 0)

\* readXrefTableData, lines 626-635: the entry "off gen alloc" of object x.
TableStore(table, x, off, gen, alloc) ==
    LET t1 == IF Len(table) <= x THEN Extend(table, x + 1) ELSE table
    IN IF TablePopulates(table, x, alloc)
       THEN [t1 EXCEPT ![x + 1] = Xref(x, gen, FALSE, 0, off)]
       ELSE t1

\* readXrefStreamData, lines 535-544: the row of object x is stored.
StreamPopulates(table, x, v1) ==
    ZeroPtr(table[x + 1]) /\ v1 \in {0, 1, 2}

\* readXrefStreamData, lines 535-547: the row (v1, v2, v3) of object x, on a
\* table that has an element x.
StreamStore(table, x, v1, v2, v3) ==
    IF ~StreamPopulates(table, x, v1) THEN table
    ELSE CASE v1 = 0 -> [table EXCEPT ![x + 1] = Xref(0, 65535, FALSE, 0, 0)]
           [] v1 = 1 -> [table EXCEPT ![x + 1] = Xref(x, v3, FALSE, 0, v2)]
           [] v1 = 2 -> [table EXCEPT ![x + 1] = Xref(x, 0, TRUE, v2, v3)]
           [] OTHER  -> table

XrefIdle ==
    /\ x_kind = "none"
    /\ x_pc = "idle"
    /\ x_table = <<>>
    /\ x_cap = 0
    /\ x_size = 0
    /\ x_sec = 0
    /\ x_next = 0
    /\ x_left = 0
    /\ x_by = [x \in Objs |-> 0]
    /\ x_free = {}

\* readXref: an xref table starts empty, an xref stream with Size zero
\* entries (lines 562 and 439).
XrefInit ==
    /\ x_kind \in {"table", "stream"}
    /\ x_pc = "section"
    /\ x_size \in 1..3
    /\ x_table = IF x_kind = "stream" THEN Extend(<<>>, x_size) ELSE <<>>
    /\ x_cap = IF x_kind = "stream" THEN x_size ELSE 0
    /\ x_sec = 1
    /\ x_next = 0
    /\ x_left = 0
    /\ x_by = [x \in Objs |-> 0]
    /\ x_free = {}

\* The header "start n" of a subsection (a pair of the Index array for a
\* stream); subsections come in increasing order of object number.
Subsection(start, n) ==
    /\ x_pc = "section"
    /\ x_left = 0
    /\ start >= x_next
    /\ start + n - 1 \in Objs
    /\ x_next' = start
    /\ x_left' = n
    /\ UNCHANGED <<x_kind, x_pc, x_table, x_cap, x_size, x_sec, x_by, x_free>>
    /\ UNCHANGED notX

\* readXrefTableData, lines 620-635: one entry of an xref table.
TableEntry(off, gen, alloc) ==
    /\ x_kind = "table"
    /\ x_pc = "section"
    /\ x_left > 0
    /\ x_table' = TableStore(x_table, x_next, off, gen, alloc)
    /\ x_by' = IF TablePopulates(x_table, x_next, alloc)
               THEN [x_by EXCEPT ![x_next] = x_sec]
               ELSE x_by
    /\ x_free' = IF x_sec = 1 /\ alloc = "f" THEN x_free \cup {x_next}
                 ELSE x_free
    /\ x_next' = x_next + 1
    /\ x_left' = x_left - 1
    /\ UNCHANGED <<x_kind, x_pc, x_cap, x_size, x_sec>>
    /\ UNCHANGED notX

\* readXrefStreamData, lines 521-547: one row of an xref stream; the table
\* is grown to capacity x + 1 but indexed within its length.
StreamEntry(v1, v2, v3) ==
    /\ x_kind = "stream"
    /\ x_pc = "section"
    /\ x_left > 0
    /\ LET lc == Grow(<<Len(x_table), x_cap>>, x_next)
           t1 == IF lc[1] > Len(x_table) THEN Extend(x_table, lc[1])
                 ELSE x_table
       IN /\ x_cap' = lc[2]
          /\ IF x_next >= Len(t1)
             THEN /\ x_pc' = "panic"
                  /\ x_table' = t1
                  /\ UNCHANGED <<x_by, x_free>>
             ELSE /\ x_table' = StreamStore(t1, x_next, v1, v2, v3)
                  /\ x_by' = IF StreamPopulates(t1, x_next, v1)
                             THEN [x_by EXCEPT ![x_next] = x_sec]
                             ELSE x_by
                  /\ x_free' = IF x_sec = 1 /\ v1 = 0
                               THEN x_free \cup {x_next} ELSE x_free
                  /\ UNCHANGED x_pc
    /\ x_next' = x_next + 1
    /\ x_left' = x_left - 1
    /\ UNCHANGED <<x_kind, x_size, x_sec>>
    /\ UNCHANGED notX

\* readXrefTable, lines 569-605: the trailer after a section.  With a Prev
\* the next older section is read; without, the table is cut to the Size of
\* the newest trailer and returned.
TableTrailer(hasPrev) ==
    /\ x_kind = "table"
    /\ x_pc = "section"
    /\ x_left = 0
    /\ IF hasPrev
       THEN /\ x_sec < MaxSections
            /\ x_sec' = x_sec + 1
            /\ x_next' = 0
            /\ UNCHANGED <<x_pc, x_table>>
       ELSE /\ x_pc' = "done"
            /\ x_table' = IF x_size < Len(x_table)
                          THEN SubSeq(x_table, 1, x_size) ELSE x_table
            /\ UNCHANGED <<x_sec, x_next>>
    /\ UNCHANGED <<x_kind, x_cap, x_size, x_left, x_by, x_free>>
    /\ UNCHANGED notX

\* readXrefStream, lines 446-478: the Prev of a stream section.  An older
\* stream with a larger Size is an error.
StreamPrev(hasPrev, psize) ==
    /\ x_kind = "stream"
    /\ x_pc = "section"
    /\ x_left = 0
    /\ IF hasPrev
       THEN /\ x_sec < MaxSections
            /\ IF psize > x_size
               THEN /\ x_pc' = "error"
                    /\ x_table' = <<>>
                    /\ x_cap' = 0
                    /\ UNCHANGED <<x_sec, x_next>>
               ELSE /\ x_sec' = x_sec + 1
                    /\ x_next' = 0
                    /\ UNCHANGED <<x_pc, x_table, x_cap>>
       ELSE /\ x_pc' = "done"
            /\ UNCHANGED <<x_sec, x_next, x_table, x_cap>>
    /\ UNCHANGED <<x_kind, x_size, x_left, x_by, x_free>>
    /\ UNCHANGED notX

\* A malformed token, entry or trailer: readXref returns a nil table and an
\* error.
XrefError ==
    /\ x_pc = "section"
    /\ x_pc' = "error"
    /\ x_table' = <<>>
    /\ x_cap' = 0
    /\ UNCHANGED <<x_kind, x_size, x_sec, x_next, x_left, x_by, x_free>>
    /\ UNCHANGED notX

(***************************************************************************)
(* Reader.resolve                                                          *)
(*                                                                         *)
(* The xref is the reader's; what the file holds at an offset or in an     *)
(* object stream is the input of the action that reads it.                 *)
(***************************************************************************)
MaxDepth == 3

\* An int64 read from an object stream header, as <<hi, lo>>: the number
\* hi * 2^32 + lo, with lo a uint32.
Int64s == {<<hi, lo>> : hi \in {0, 1}, lo \in 0..3}

\* uint32(id)
Uint32(id) == id[2]

\* types.Objptr
Objptr(id, gen) == [ID |-> id, Gen |-> gen]
Ptrs == {Objptr(id, gen) : id \in 0..4, gen \in {0, 1}}

\* The value resolve returns: its kind, for a stream its Type and whether
\* First is non-zero, and the <<number, generation>> it was defined under
\* (history).
Value(kind, type, first, def) ==
    [kind |-> kind, type |-> type, first |-> first, def |-> def]
NullValue == Value("null", "", 0, <<>>)

\* The objects a definition can hold: a dictionary, an object stream with
\* or without First, another stream, and an object resolve has no case for.
Bodies ==
    { Value("dict", "", 0, <<>>), Value("stream", "ObjStm", 1, <<>>),
      Value("stream", "ObjStm", 0, <<>>), Value("stream", "XObject", 1, <<>>),
      Value("objptr", "", 0, <<>>) }

\* One call of resolve: its ptr, where it is, the object stream it searches
\* and the header pairs left.
Frame(ptr, pc) == [ptr |-> ptr, pc |-> pc, strm |-> NullValue, left |-> 0]

\* The entries of the reader's xref for object x.
XrefEntries(x) ==
    { ZeroXref, Xref(0, 65535, FALSE, 0, 0),
      Xref(x, 0, FALSE, 0, 100), Xref(x, 1, FALSE, 0, 100),
      Xref(x, 0, TRUE, 1, 0), Xref(x, 0, TRUE, 2, 0) }

ResolveIdle ==
    /\ r_pc = "idle"
    /\ r_xref = <<>>
    /\ r_req = Objptr(0, 0)
    /\ r_stack = <<>>
    /\ r_val = NullValue

ResolveInit ==
    /\ r_pc = "idle"
    /\ r_xref \in {<<a, b, c>> : a \in XrefEntries(0), b \in XrefEntries(1),
                                c \in XrefEntries(2)}
    /\ r_req = Objptr(0, 0)
    /\ r_stack = <<>>
    /\ r_val = NullValue

Top == r_stack[Len(r_stack)]

\* The stack with its top frame replaced.
WithTop(f) == [r_stack EXCEPT ![Len(r_stack)] = f]

\* resolve, lines 714-719: the type switch on the object found.
Unexpected(v) == v.kind \notin {"null", "dict", "stream"}

\* The call on top returns v: to the caller's wait for its object stream or
\* for Extends, or out of the outermost call.
ReturnTop(v) ==
    IF Unexpected(v) THEN r_pc' = "panic" /\ UNCHANGED <<r_stack, r_val>>
    ELSE IF Len(r_stack) = 1
    THEN r_pc' = "returned" /\ r_val' = v /\ r_stack' = <<>>
    ELSE LET rest   == SubSeq(r_stack, 1, Len(r_stack) - 1)
             caller == rest[Len(rest)]
         IN IF caller.pc = "awaitext" /\ v.kind # "stream"
            THEN r_pc' = "panic" /\ UNCHANGED <<r_stack, r_val>>
            ELSE /\ r_stack' = [rest EXCEPT ![Len(rest)] =
                                   [caller EXCEPT !.pc = "check", !.strm = v]]
                 /\ UNCHANGED <<r_pc, r_val>>

\* resolve(parent, ptr) is called on the reader.
ResolveCall(ptr) ==
    /\ r_pc = "idle"
    /\ r_pc' = "run"
    /\ r_req' = ptr
    /\ r_stack' = <<Frame(ptr, "lookup")>>
    /\ UNCHANGED <<r_xref, r_val>>
    /\ UNCHANGED notR

\* A further call of resolve from the call on top, which waits in pc.
Recurse(ptr, pc) ==
    IF Len(r_stack) >= MaxDepth
    THEN r_pc' = "deep" /\ UNCHANGED <<r_stack, r_val>>
    ELSE /\ r_stack' = Append(WithTop([Top EXCEPT !.pc = pc]),
                              Frame(ptr, "lookup"))
         /\ UNCHANGED <<r_pc, r_val>>

\* The test of resolve, line 662.
Dead(xref, ptr) ==
    \/ xref.ID # ptr.ID \/ xref.Gen # ptr.Gen
    \/ (~xref.InStream /\ xref.Offset = 0)

\* resolve, lines 657-667: the xref entry of ptr.
Lookup ==
    /\ r_pc = "run"
    /\ Top.pc = "lookup"
    /\ LET ptr == Top.ptr IN
       IF ptr.ID >= Len(r_xref) THEN ReturnTop(NullValue)
       ELSE LET xref == r_xref[ptr.ID + 1] IN
            IF Dead(xref, ptr) THEN ReturnTop(NullValue)
            ELSE IF xref.InStream
            THEN Recurse(Objptr(xref.Stream, 0), "awaitstream")
            ELSE /\ r_stack' = WithTop([Top EXCEPT !.pc = "infile"])
                 /\ UNCHANGED <<r_pc, r_val>>
    /\ UNCHANGED <<r_xref, r_req>>
    /\ UNCHANGED notR

\* What readObject finds at the offset of an in-file entry: an object that
\* is no definition, or a definition under some number and generation.
Found ==
    {[isDef |-> FALSE, ID |-> 0, Gen |-> 0, Obj |-> NullValue]} \cup
    {[isDef |-> TRUE, ID |-> id, Gen |-> gen, Obj |-> o] :
        id \in 0..2, gen \in {0, 1}, o \in Bodies}

\* The test of resolve, line 706.
DefMismatch(def, ptr) == def.ID # ptr.ID \/ def.Gen # ptr.Gen

\* resolve, lines 699-710 and 714-719: the definition at xref.Offset.
InFile(obj) ==
    /\ r_pc = "run"
    /\ Top.pc = "infile"
    /\ IF ~obj.isDef \/ DefMismatch(obj, Top.ptr)
       THEN r_pc' = "panic" /\ UNCHANGED <<r_stack, r_val>>
       ELSE ReturnTop([obj.Obj EXCEPT !.def = <<<<0, obj.ID>>, obj.Gen>>])
    /\ UNCHANGED <<r_xref, r_req>>
    /\ UNCHANGED notR

\* resolve, lines 670-681: the tests on the object stream and its N.
Check(n) ==
    /\ r_pc = "run"
    /\ Top.pc = "check"
    /\ IF Top.strm.kind # "stream" \/ Top.strm.type # "ObjStm"
          \/ Top.strm.first = 0
       THEN r_pc' = "panic" /\ UNCHANGED <<r_stack, r_val>>
       ELSE /\ r_stack' = WithTop([Top EXCEPT !.pc = "search", !.left = n])
            /\ UNCHANGED <<r_pc, r_val>>
    /\ UNCHANGED <<r_xref, r_req>>
    /\ UNCHANGED notR

\* resolve, lines 683-691 and 714-719: one pair of the header of the object
\* stream, and the object at First + off on a match.
SearchPair(id, obj) ==
    /\ r_pc = "run"
    /\ Top.pc = "search"
    /\ Top.left > 0
    /\ IF Uint32(id) = Top.ptr.ID
       THEN ReturnTop([obj EXCEPT !.def = <<id, 0>>])
       ELSE /\ r_stack' = WithTop([Top EXCEPT !.left = Top.left - 1])
            /\ UNCHANGED <<r_pc, r_val>>
    /\ UNCHANGED <<r_xref, r_req>>
    /\ UNCHANGED notR

\* resolve, lines 692-696: no pair matched; Extends is absent, or a
\* reference that Key resolves.
SearchEnd(hasExt, ext) ==
    /\ r_pc = "run"
    /\ Top.pc = "search"
    /\ Top.left = 0
    /\ IF ~hasExt
       THEN r_pc' = "panic" /\ UNCHANGED <<r_stack, r_val>>
       ELSE Recurse(ext, "awaitext")
    /\ UNCHANGED <<r_xref, r_req>>
    /\ UNCHANGED notR

(***************************************************************************)
(* Text.Split and Text.TrimSpace                                           *)
(*                                                                         *)
(* A nil Text and an empty Text are both the empty sequence.               *)
(***************************************************************************)
MaxParts == 2
MaxChars == 2

\* The characters, contents, styles and separators of the Texts the methods
\* are applied to.
Chars == {"a", " ", "\n"}
Contents == UNION { [1..n -> Chars] : n \in 0..MaxChars }
Styles == {<<1, 1>>, <<2, 2>>}
TextParts ==
    {[Size |-> st[1], Weight |-> st[2], Content |-> c] :
        st \in Styles, c \in Contents}
\* Texts of one part more, with contents of at most one character.
ShortParts ==
    {[Size |-> st[1], Weight |-> st[2], Content |-> c] :
        st \in Styles, c \in {<<>>, <<" ">>, <<"a">>}}
Texts == UNION { [1..n -> TextParts] : n \in 0..MaxParts }
             \cup [1..(MaxParts + 1) -> ShortParts]
Seps == {<<"\n">>, <<"a">>}

\* strings.Index(s, sep): the 0-based index of the first occurrence, or -1.
Index(s, sep) ==
    LET at == {i \in 0..(Len(s) - Len(sep)) :
                  SubSeq(s, i + 1, i + Len(sep)) = sep}
    IN IF at = {} THEN -1 ELSE CHOOSE i \in at : \A j \in at : i <= j

RECURSIVE SplitStr(_, _)
\* strings.Split(s, sep), for a non-empty sep.
SplitStr(s, sep) ==
    LET i == Index(s, sep)
    IN IF i < 0 THEN <<s>>
       ELSE <<SubSeq(s, 1, i)>> \o
            SplitStr(SubSeq(s, i + Len(sep) + 1, Len(s)), sep)

RECURSIVE SplitLines(_, _, _, _)
\* Text.Split, lines 87-93: the lines of one part, from the i-th on; st holds
\* parts (the segments so far) and current (the builder's text).
SplitLines(st, p, lines, i) ==
    IF i > Len(lines) THEN st
    ELSE LET st1 == IF i > 1
                    THEN [parts |-> Append(st.parts, st.current),
                          current |-> <<>>]
                    ELSE st
             st2 == [st1 EXCEPT
                       !.current = add(@, p.Size, p.Weight, lines[i])]
         IN SplitLines(st2, p, lines, i + 1)

RECURSIVE SplitParts(_, _, _)
\* Text.Split, lines 85-94: the loop over the parts.
SplitParts(st, s, sep) ==
    IF s = <<>> THEN st
    ELSE SplitParts(SplitLines(st, s[1], SplitStr(s[1].Content, sep), 1),
                    Tail(s), sep)

\* A Split that forgets the segment it is building when the parts run out.
SplitNoFlush(s, sep) ==
    SplitParts([parts |-> <<>>, current |-> <<>>], s, sep).parts

\* Text.Split(sep)
Split(s, sep) ==
    LET st == SplitParts([parts |-> <<>>, current |-> <<>>], s, sep)
    IN IF Len(st.current) > 0 THEN Append(st.parts, st.current)
       ELSE st.parts

RECURSIVE TrimLeftFunc(_)
\* strings.TrimLeftFunc(s, unicode.IsSpace)
TrimLeftFunc(s) ==
    IF Len(s) > 0 /\ IsSpace(s[1]) THEN TrimLeftFunc(Tail(s)) ELSE s

RECURSIVE TrimRightFunc(_)
\* strings.TrimRightFunc(s, unicode.IsSpace)
TrimRightFunc(s) ==
    IF Len(s) > 0 /\ IsSpace(s[Len(s)])
    THEN TrimRightFunc(SubSeq(s, 1, Len(s) - 1))
    ELSE s

\* Text.TrimSpace()
TrimSpace(t) ==
    LET l == Len(t)
        cut(i) ==
            LET c1 == IF i = 1 THEN TrimLeftFunc(t[i].Content)
                      ELSE t[i].Content
                c2 == IF i = l THEN TrimRightFunc(c1) ELSE c1
            IN [t[i] EXCEPT !.Content = c2]
        kept(p) == Len(p.Content) > 0
    IN SelectSeq([i \in 1..l |-> cut(i)], kept)

TextIdle ==
    /\ tx_pc = "idle"
    /\ tx_in = <<>>
    /\ tx_sep = <<>>
    /\ tx_segs = <<>>
    /\ tx_trim = <<>>

TextInit ==
    /\ tx_pc = "idle"
    /\ tx_in \in Texts
    /\ tx_sep = <<>>
    /\ tx_segs = <<>>
    /\ tx_trim = <<>>

\* tx_in.Split(sep)
CallSplit(sep) ==
    /\ tx_pc = "idle"
    /\ tx_pc' = "split"
    /\ tx_sep' = sep
    /\ tx_segs' = Split(tx_in, sep)
    /\ UNCHANGED <<tx_in, tx_trim>>
    /\ UNCHANGED notT

\* tx_in.TrimSpace()
CallTrimSpace ==
    /\ tx_pc = "idle"
    /\ tx_pc' = "trimmed"
    /\ tx_trim' = TrimSpace(tx_in)
    /\ UNCHANGED <<tx_in, tx_sep, tx_segs>>
    /\ UNCHANGED notT

(***************************************************************************)
(* getWidths and widths.CodeWidth                                          *)
(***************************************************************************)
MaxW == 4


\* value.Index(i), 0-based: the null value outside the array.
IndexV(arr, i) == IF 0 <= i /\ i < Len(arr) THEN arr[i + 1] ELSE NullV

\* A font dictionary: the keys getWidths reads.  Desc is DescendantFonts.
FontDict(subtype, dw, w, missing, firstChar, lastChar, ws, desc) ==
    [Subtype |-> subtype, DW |-> dw, W |-> w, MissingWidth |-> missing,
     FirstChar |-> firstChar, LastChar |-> lastChar, Widths |-> ws,
     Desc |-> desc]

\* The dictionary a null value stands for: every key is absent.
NullDict == FontDict("", 0, <<>>, 0, 0, 0, <<>>, <<>>)

\* font.go span and widths.
Span(first, last, fixed, linear) ==
    [first |-> first, last |-> last, fixed |-> fixed, linear |-> linear]
Widths(defaultW, spans) ==
    [panic |-> FALSE, defaultW |-> defaultW, spans |-> spans]
BadW == [panic |-> TRUE, defaultW |-> 0, spans |-> <<>>]

RECURSIVE WSpans(_, _, _, _)
\* getWidths, lines 36-59: the loop over W, entered with i and the spans so
\* far; BadW when it panics.
WSpans(dw, ww, i, spans) ==
    IF ~(i < Len(ww)) THEN Widths(dw, spans)
    ELSE LET first == Int64(IndexV(ww, i - 1))
             it    == IndexV(ww, i)
         IN IF it.k = "num"
            THEN WSpans(dw, ww, i + 3,
                        Append(spans, Span(first, Int64(it),
                                           Float64(IndexV(ww, i + 1)), <<>>)))
            ELSE IF it.k = "arr"
            THEN WSpans(dw, ww, i + 2,
                        Append(spans,
                               Span(first, first + Len(it.a) - 1, 0,
                                    [j \in 1..Len(it.a) |-> Float64(it.a[j])])))
            ELSE BadW

RECURSIVE getWidths(_)
\* getWidths(v)
getWidths(v) ==
    IF v.Subtype = "Type0"
    THEN getWidths(IF v.Desc = <<>> THEN NullDict ELSE v.Desc[1])
    ELSE IF v.Subtype \in {"CIDFontType0", "CIDFontType2"}
    THEN WSpans(v.DW, v.W, 1, <<>>)
    ELSE Widths(v.MissingWidth,
                <<Span(v.FirstChar, v.LastChar, 0,
                       [i \in 1..Len(v.Widths) |-> Float64(v.Widths[i])])>>)

\* What CodeWidth gives: a width, or the index-out-of-range panic.
WidthOf(w) == [panic |-> FALSE, w |-> w]
WidthPanic == [panic |-> TRUE, w |-> 0]

\* A CodeWidth that knows no spans.
CodeWidthDefault(w, code) == WidthOf(w.defaultW)

RECURSIVE CodeWidthFrom(_, _, _)
\* widths.CodeWidth, lines 227-236: the loop, from the i-th span on.
CodeWidthFrom(w, code, i) ==
    IF i > Len(w.spans) THEN WidthOf(w.defaultW)
    ELSE LET s == w.spans[i]
         IN IF code >= s.first /\ code <= s.last
            THEN IF Len(s.linear) > 0
                 THEN IF code - s.first < Len(s.linear)
                      THEN WidthOf(s.linear[code - s.first + 1])
                      ELSE WidthPanic
                 ELSE WidthOf(s.fixed)
            ELSE CodeWidthFrom(w, code, i + 1)

\* widths.CodeWidth(code)
CodeWidth(w, code) == CodeWidthFrom(w, code, 1)

\* The fonts of the model: simple fonts, CID fonts and Type0 fonts over
\* them; the codes 64..66 and the widths 500 and 600.
Codes == 63..67
WItems ==
    { NumV(64), NumV(65), NumV(66), NumV(500), RealV(600),
      ArrV(<<>>), ArrV(<<NumV(500)>>), ArrV(<<NumV(500), RealV(600)>>) }
WidthItems == {NumV(500), RealV(600)}
SeqsUpTo(S, n) == UNION { [1..k -> S] : k \in 0..n }
SimpleFonts ==
    { FontDict("Type1", 0, <<>>, mw, fc, lc, ws, <<>>) :
        mw \in {0, 1000}, fc \in {64, 65}, lc \in {65, 66},
        ws \in SeqsUpTo(WidthItems, MaxW - 1) }
CIDFonts ==
    { FontDict("CIDFontType2", 1000, w, 0, 0, 0, <<>>, <<>>) :
        w \in SeqsUpTo(WItems, MaxW) }
Type0Fonts ==
    { FontDict("Type0", 0, <<>>, 0, 0, 0, <<>>, d) :
        d \in {<<>>} \cup {<<f>> : f \in {g \in CIDFonts : Len(g.W) <= 2}} }
FontDicts == SimpleFonts \cup CIDFonts \cup Type0Fonts

WidthsIdle ==
    /\ w_pc = "idle"
    /\ w_dict = NullDict
    /\ w_widths = Widths(0, <<>>)
    /\ w_code = 0
    /\ w_out = WidthOf(0)

WidthsInit ==
    /\ w_pc = "idle"
    /\ w_dict \in FontDicts
    /\ w_widths = Widths(0, <<>>)
    /\ w_code = 0
    /\ w_out = WidthOf(0)

\* getWidths(w_dict), as getDecoder calls it.
GetWidths ==
    /\ w_pc = "idle"
    /\ w_widths' = getWidths(w_dict)
    /\ w_pc' = IF w_widths'.panic THEN "panic" ELSE "built"
    /\ UNCHANGED <<w_dict, w_code, w_out>>
    /\ UNCHANGED notW

\* w_widths.CodeWidth(code)
LookupCode(code) ==
    /\ w_pc = "built"
    /\ w_code' = code
    /\ w_out' = CodeWidth(w_widths, code)
    /\ w_pc' = IF w_out'.panic THEN "panic" ELSE "looked"
    /\ UNCHANGED <<w_dict, w_widths>>
    /\ UNCHANGED notW

(***************************************************************************)
(* encoding.CMap.Decode                                                    *)
(*                                                                         *)
(* Byte strings are sequences of bytes 0..255, decoded text is a sequence  *)
(* of runes.                                                               *)
(***************************************************************************)
MaxRaw == 2

\* The rune written for a code without a mapping.
NoRune == 65533

\* Go's s <= t on strings: bytewise, a proper prefix is smaller.
RECURSIVE StrLeq(_, _)
StrLeq(s, t) ==
    IF s = <<>> THEN TRUE
    ELSE IF t = <<>> THEN FALSE
    ELSE IF s[1] # t[1] THEN s[1] < t[1]
    ELSE StrLeq(Tail(s), Tail(t))

\* norm.NFKC on one rune, for the runes of the model: the ligature U+FB01
\* becomes "fi", the ASCII runes are unchanged.
NFKC(r) == IF r = 64257 THEN <<102, 105>> ELSE <<r>>

RECURSIVE Normalize(_)
Normalize(rs) ==
    IF rs = <<>> THEN <<>> ELSE NFKC(rs[1]) \o Normalize(Tail(rs))

\* encoding.UTF16Decode(s): the big-endian code units of s, normalized; the
\* index s[i+1] is out of range for a string of odd length.
UTF16Decode(s) ==
    IF Len(s) % 2 = 1 THEN [panic |-> TRUE, text |-> <<>>]
    ELSE [panic |-> FALSE,
          text |-> Normalize([i \in 1..(Len(s) \div 2) |->
                                 s[2 * i - 1] * 256 + s[2 * i]])]

\* encoding.ByteRange, BFChar, BFRange and CMap.
ByteRange(lo, hi) == [Lo |-> lo, Hi |-> hi]
BFChar(orig, repl) == [Orig |-> orig, Repl |-> repl]
BFRange(lo, hi, dstS, dstA) ==
    [Lo |-> lo, Hi |-> hi, DstS |-> dstS, DstA |-> dstA]
CMap(widths, space, bfranges, bfchars) ==
    [Widths |-> widths, Space |-> space, BFRanges |-> bfranges,
     BFChars |-> bfchars]

\* The code of n bytes, big-endian.
RECURSIVE CodeOf(_)
CodeOf(text) ==
    IF text = <<>> THEN 0
    ELSE CodeOf(SubSeq(text, 1, Len(text) - 1)) * 256 + text[Len(text)]

\* Decode, lines 38-41: the lengths n at which a codespace range holds
\* raw[:n].
Matches(m, raw) ==
    {n \in 1..4 :
        /\ n <= Len(raw)
        /\ \E i \in 1..Len(m.Space[n]) :
              /\ StrLeq(m.Space[n][i].Lo, SubSeq(raw, 1, n))
              /\ StrLeq(SubSeq(raw, 1, n), m.Space[n][i].Hi)}

\* The first element of the sequence s that satisfies P, as a sequence of
\* at most one element.
FirstOf(s, P(_)) ==
    LET at == {i \in 1..Len(s) : P(s[i])}
    IN IF at = {} THEN <<>>
       ELSE <<s[CHOOSE i \in at : \A j \in at : i <= j]>>

\* What one code adds: runes and width, or a panic.
Piece1(text, w) == [panic |-> FALSE, text |-> text, w |-> w]
Panic1 == [panic |-> TRUE, text |-> <<>>, w |-> 0]

\* The runes of the UTF-16 string s with the width of the code.
Mapped(m, s, code) ==
    LET u  == UTF16Decode(s)
        cw == CodeWidth(m.Widths, code)
    IN IF u.panic \/ cw.panic THEN Panic1 ELSE Piece1(u.text, cw.w)

\* Decode, lines 73-77: a code in the codespace without a mapping.
Unmapped(m, code) == Piece1(<<NoRune>>, 0)

\* Decode, lines 51-75: the code text through the bfrange r.
ThroughRange(m, r, text, code) ==
    LET diff == (text[Len(text)] - r.Lo[Len(r.Lo)]) % 256
    IN IF Len(r.DstS) > 0
       THEN Mapped(m, IF r.Lo # text
                      THEN [r.DstS EXCEPT ![Len(r.DstS)] = (@ + diff) % 256]
                      ELSE r.DstS, code)
       ELSE IF Len(r.DstA) > 0
       THEN IF diff >= Len(r.DstA) \/ r.DstA[diff + 1].k # "str"
            THEN Panic1
            ELSE Mapped(m, r.DstA[diff + 1].s, code)
       ELSE Unmapped(m, code)

\* Decode, lines 42-78: the code text, held by a codespace range.
DecodeCode(m, text) ==
    LET n    == Len(text)
        code == CodeOf(text)
        isChar(c)  == Len(c.Orig) = n /\ c.Orig = text
        isRange(r) == Len(r.Lo) = n /\ StrLeq(r.Lo, text) /\ StrLeq(text, r.Hi)
        c == FirstOf(m.BFChars, isChar)
        r == FirstOf(m.BFRanges, isRange)
    IN IF c # <<>> THEN Mapped(m, c[1].Repl, code)
       ELSE IF r # <<>> THEN ThroughRange(m, r[1], text, code)
       ELSE Unmapped(m, code)

RECURSIVE DecodeFrom(_, _, _)
\* Decode, lines 35-85: the Parse loop, with the runes and width so far.
DecodeFrom(m, raw, acc) ==
    IF raw = <<>> \/ acc.panic THEN acc
    ELSE IF Matches(m, raw) = {}
    THEN DecodeFrom(m, Tail(raw), [acc EXCEPT !.text = @ \o <<NoRune>>])
    ELSE LET n == CHOOSE k \in Matches(m, raw) :
                     \A j \in Matches(m, raw) : k <= j
             p == DecodeCode(m, SubSeq(raw, 1, n))
         IN IF p.panic THEN Panic1
            ELSE DecodeFrom(m, SubSeq(raw, n + 1, Len(raw)),
                            Piece1(acc.text \o p.text, acc.w + p.w))

\* CMap.Decode(raw)
CMapDecode(m, raw) == DecodeFrom(m, raw, Piece1(<<>>, 0))

\* The CMaps of the model: the codespace 00..FF, or 41 alone with the
\* two-byte codes 42 00..42 FF; bfchars and bfranges for the codes 41 and
\* 42, with strings of an odd length and arrays that are too short among
\* them; widths 500 and 600 for the codes 65 and 66.
Spaces ==
    { << <<ByteRange(<<0>>, <<255>>)>>, <<>>, <<>>, <<>> >>,
      << <<ByteRange(<<65>>, <<65>>)>>,
         <<ByteRange(<<66, 0>>, <<66, 255>>)>>, <<>>, <<>> >> }
BFCharLists ==
    { <<>>, <<BFChar(<<65>>, <<0, 65>>)>>, <<BFChar(<<65>>, <<251, 1>>)>>,
      <<BFChar(<<65>>, <<65>>)>> }
BFRangeLists ==
    { <<>>,
      <<BFRange(<<65>>, <<66>>, <<0, 65>>, <<>>)>>,
      <<BFRange(<<66>>, <<66>>, <<>>, <<StrV(<<0, 66>>)>>)>>,
      <<BFRange(<<65>>, <<66>>, <<>>, <<StrV(<<0, 65>>)>>)>>,
      <<BFRange(<<65>>, <<66>>, <<>>, <<>>)>> }
CMapWidths ==
    { Widths(1000, <<>>),
      Widths(1000, <<Span(65, 66, 0, <<500, 600>>)>>) }
CMaps ==
    { CMap(w, sp, rs, cs) :
        w \in CMapWidths, sp \in Spaces, rs \in BFRangeLists,
        cs \in BFCharLists }
Raws == UNION { [1..n -> {65, 66, 0}] : n \in 0..MaxRaw }

CMapIdle ==
    /\ m_pc = "idle"
    /\ m_cmap = CMap(Widths(0, <<>>), <<<<>>, <<>>, <<>>, <<>>>>, <<>>, <<>>)
    /\ m_raw = <<>>
    /\ m_text = <<>>
    /\ m_w = 0

CMapInit ==
    /\ m_pc = "idle"
    /\ m_cmap \in CMaps
    /\ m_raw = <<>>
    /\ m_text = <<>>
    /\ m_w = 0

\* m_cmap.Decode(raw)
CallDecode(raw) ==
    /\ m_pc = "idle"
    /\ m_raw' = raw
    /\ LET d == CMapDecode(m_cmap, raw)
       IN /\ m_pc' = IF d.panic THEN "panic" ELSE "decoded"
          /\ m_text' = d.text
          /\ m_w' = d.w
    /\ UNCHANGED m_cmap
    /\ UNCHANGED notM

(***************************************************************************)
(* matrix.Mul and its short-circuited variants                             *)
(***************************************************************************)
\* matrix.rotation()
rotation(m) == ~FEq(m[1][2], F(0)) \/ ~FEq(m[2][1], F(0))

\* matrix.sparse()
sparse(m) ==
    /\ FEq(m[1][2], F(0)) /\ FEq(m[1][3], F(0))
    /\ FEq(m[2][1], F(0)) /\ FEq(m[2][3], F(0))
    /\ FEq(m[3][3], F(1))

\* A short path that forgets the translation of n.
MulShortNoShift(m, n) ==
    << <<FMul(m[1][1], n[1][1]), F(0), F(0)>>,
       <<F(0), FMul(m[2][2], n[2][2]), F(0)>>,
       <<FMul(m[3][1], n[1][1]), FMul(m[3][2], n[2][2]), F(1)>> >>

\* The short path of both variants.
MulShort(m, n) ==
    << <<FMul(m[1][1], n[1][1]), F(0), F(0)>>,
       <<F(0), FMul(m[2][2], n[2][2]), F(0)>>,
       <<FAdd(FMul(m[3][1], n[1][1]), n[3][1]),
         FAdd(FMul(m[3][2], n[2][2]), n[3][2]), F(1)>> >>

\* The rotation() variant of matrix.Mul.
MulRotation(m, n) ==
    IF ~rotation(m) /\ ~rotation(n) THEN MulShort(m, n)
    ELSE << <<FAdd(FMul(m[1][1], n[1][1]), FMul(m[1][2], n[2][1])),
              FAdd(FMul(m[1][1], n[1][2]), FMul(m[1][2], n[2][2])), F(0)>>,
            <<FAdd(FMul(m[2][1], n[1][1]), FMul(m[2][2], n[2][1])),
              FAdd(FMul(m[2][1], n[1][2]), FMul(m[2][2], n[2][2])), F(0)>>,
            <<FAdd(FAdd(FMul(m[3][1], n[1][1]), FMul(m[3][2], n[2][1])),
                   n[3][1]),
              FAdd(FAdd(FMul(m[3][1], n[1][2]), FMul(m[3][2], n[2][2])),
                   n[3][2]), F(1)>> >>

\* The sparse() variant of matrix.Mul.
MulSparse(m, n) ==
    IF sparse(m) /\ sparse(n) THEN MulShort(m, n) ELSE Mul(m, n)

\* The matrices of the model: scales 1, 2 and -1, rotation terms 0 and 1,
\* translations 0 and 3, and a last column that is {0, 0, 1} or not; and
\* the two matrices that a horizontal scale of NaN (Tz with a negative
\* operand) brings about: the scaling of Text.trm and the translation of
\* Text.displace.
FiniteMatrices ==
    { << <<F(a), F(b), F(z)>>, <<F(c), F(d), F(0)>>, <<F(e), F(f), F(1)>> >> :
        a \in {1, 2, -1}, d \in {1, 2, -1}, b \in {0, 1}, c \in {0, 1},
        e \in {0, 3}, f \in {0, 3}, z \in {0, 1} }
NaNMatrices ==
    { << <<NaN, F(0), F(0)>>, <<F(0), F(2), F(0)>>, <<F(0), F(0), F(1)>> >>,
      << <<F(1), F(0), F(0)>>, <<F(0), F(1), F(0)>>, <<NaN, F(0), F(1)>> >> }
Matrices == FiniteMatrices \cup NaNMatrices

MatrixIdle ==
    /\ k_pc = "idle"
    /\ k_m = identity
    /\ k_n = identity
    /\ k_full = identity
    /\ k_rot = identity
    /\ k_sparse = identity

MatrixInit ==
    /\ k_pc = "idle"
    /\ k_m \in Matrices
    /\ k_n \in Matrices
    /\ k_full = identity
    /\ k_rot = identity
    /\ k_sparse = identity

\* k_m.Mul(k_n), by each source of Mul.
CallMul ==
    /\ k_pc = "idle"
    /\ k_pc' = "done"
    /\ k_full' = Mul(k_m, k_n)
    /\ k_rot' = MulRotation(k_m, k_n)
    /\ k_sparse' = MulSparse(k_m, k_n)
    /\ UNCHANGED <<k_m, k_n>>
    /\ UNCHANGED notK

(***************************************************************************)
(* pngUpReader.Read                                                        *)
(***************************************************************************)
MaxRows == 3

RECURSIVE Xor(_, _)
\* a ^ b on bytes.
Xor(a, b) ==
    IF a = 0 /\ b = 0 THEN 0
    ELSE (((a % 2) + (b % 2)) % 2) + 2 * Xor(a \div 2, b \div 2)

\* pngUpReader.Read, line 834: r.hist[i] += b on bytes.
AddByte(a, b) == (a + b) % 256

\* What the loop of one Read carries: the reader's fields, the bytes left
\* in the underlying reader, the bytes copied to b and the error.
ReadState(in, hist, pend, out, err) ==
    [in |-> in, hist |-> hist, pend |-> pend, out |-> out, err |-> err]

\* The smaller of two numbers.
Min(a, b) == IF a <= b THEN a ELSE b

RECURSIVE ReadLoop(_, _)
\* pngUpReader.Read, lines 816-839: the loop, with want = len(b) left.  A
\* row that does not start with 2 has been taken from the underlying reader
\* when the error is returned, and hist is left as it was; io.ReadFull on
\* less than a row takes what is left.
ReadLoop(st, want) ==
    IF want = 0 THEN st
    ELSE IF Len(st.pend) > 0
    THEN LET m == Min(want, Len(st.pend))
         IN ReadLoop([st EXCEPT !.out = @ \o SubSeq(st.pend, 1, m),
                                !.pend = SubSeq(@, m + 1, Len(@))],
                     want - m)
    ELSE LET size == Len(st.hist)
         IN IF Len(st.in) = 0 THEN [st EXCEPT !.err = "EOF"]
            ELSE IF Len(st.in) < size
            THEN [st EXCEPT !.in = <<>>, !.err = "ErrUnexpectedEOF"]
            ELSE LET tmp  == SubSeq(st.in, 1, size)
                     rest == SubSeq(st.in, size + 1, Len(st.in))
                 IN IF tmp[1] # 2
                    THEN [st EXCEPT !.in = rest, !.err = "malformed"]
                    ELSE LET hist == [i \in 1..size |->
                                         AddByte(st.hist[i], tmp[i])]
                         IN ReadLoop([st EXCEPT !.in = rest, !.hist = hist,
                                                !.pend = Tail(hist)],
                                     want)

\* The rows of the model: a leading byte 2 or 1 and payload bytes that make
\* sums differ from XORs and wrap at 256; the file may end inside a row.
PngBytes == {1, 2, 255}
PngRows(cols) ==
    {<<lead>> \o p : lead \in {2, 1}, p \in [1..cols -> PngBytes]}
RECURSIVE Flat(_)
Flat(rows) == IF rows = <<>> THEN <<>> ELSE rows[1] \o Flat(Tail(rows))
PngFiles(cols) ==
    {Flat(rows) \o cut :
        rows \in UNION { [1..n -> PngRows(cols)] : n \in 0..MaxRows },
        cut \in {<<>>, <<2>>}}

PngIdle ==
    /\ g_pc = "idle"
    /\ g_file = <<>>
    /\ g_cols = 0
    /\ g_in = <<>>
    /\ g_hist = <<>>
    /\ g_pend = <<>>
    /\ g_out = <<>>
    /\ g_err = "nil"
    /\ g_bad = 0

\* applyFilter, line 793: the reader over the file, hist all zero.
PngInit ==
    /\ g_pc = "reading"
    /\ g_cols \in {1, 2}
    /\ g_file \in PngFiles(g_cols)
    /\ g_in = g_file
    /\ g_hist = [i \in 1..(1 + g_cols) |-> 0]
    /\ g_pend = <<>>
    /\ g_out = <<>>
    /\ g_err = "nil"
    /\ g_bad = 0

\* r.Read(b) with len(b) = n.  The reader keeps no error: a Read after one
\* that returned an error goes on with the next row, as it does for
\* buffer.reload (lex.go 79-80), which drops an error that comes with bytes
\* and reads again.
Read(n) ==
    /\ g_pc # "idle"
    /\ LET st == ReadLoop(ReadState(g_in, g_hist, g_pend, <<>>, "nil"), n)
       IN /\ g_in' = st.in
          /\ g_hist' = st.hist
          /\ g_pend' = st.pend
          /\ g_out' = g_out \o st.out
          /\ g_err' = st.err
          /\ g_bad' = IF st.err = "malformed" THEN g_bad + 1 ELSE g_bad
          /\ g_pc' = IF st.err = "nil" \/ Len(st.out) > 0 THEN "reading"
                     ELSE IF st.err = "EOF" THEN "eof"
                     ELSE "failed"
    /\ UNCHANGED <<g_file, g_cols>>
    /\ UNCHANGED notG

(***************************************************************************)
(* interpret: the dispatch of keywords over the dict stack                 *)
(***************************************************************************)
MaxToks == 3

\* The streams of the model: one of a few openings that bind x, shadow it
\* or not, and then every sequence of up to MaxToks tokens.
PsTokens ==
    {Kw("x"), Kw("y"), Kw("null"), Kw("dict"), Kw("currentdict"),
     Kw("begin"), Kw("end"), Kw("def"), Kw("pop"), Kw("dup"),
     IntTok(1), NameTok("x")}
BindX(v) == <<Kw("dict"), Kw("begin"), NameTok("x"), v, Kw("def")>>
BindY(v) == <<Kw("dict"), Kw("begin"), NameTok("y"), v, Kw("def")>>
Openings ==
    {<<>>, BindX(IntTok(1)), BindX(IntTok(1)) \o BindX(NameTok("x")),
     BindX(IntTok(1)) \o BindY(IntTok(1))}
PsStreams ==
    {o \o t : o \in Openings,
              t \in UNION {[1..n -> PsTokens] : n \in 0..MaxToks}}

InterpIdle ==
    /\ i_pc = "idle"
    /\ i_stream = <<>>
    /\ i_rest = <<>>
    /\ i_stk = <<>>
    /\ i_dicts = <<>>
    /\ i_heap = <<>>
    /\ i_calls = <<>>

\* interpret, lines 55-60.
InterpInit ==
    /\ i_pc = "run"
    /\ i_stream \in PsStreams
    /\ i_rest = i_stream
    /\ i_stk = <<>>
    /\ i_dicts = <<>>
    /\ i_heap = <<>>
    /\ i_calls = <<>>

\* interpret, one turn of the loop on a token.
ReadToken ==
    /\ i_pc = "run"
    /\ i_rest # <<>>
    /\ LET s == Dispatch(Interp(i_stk, i_dicts, i_heap, i_calls, NoPanic),
                         Head(i_rest))
       IN /\ i_stk' = s.stk
          /\ i_dicts' = s.dicts
          /\ i_heap' = s.heap
          /\ i_calls' = s.calls
          /\ i_pc' = IF s.panic # NoPanic THEN "panic" ELSE "run"
    /\ i_rest' = Tail(i_rest)
    /\ UNCHANGED i_stream
    /\ UNCHANGED notI

\* interpret, lines 64-66: the token is io.EOF.
ReadEOF ==
    /\ i_pc = "run"
    /\ i_rest = <<>>
    /\ i_pc' = "done"
    /\ UNCHANGED <<i_stream, i_rest, i_stk, i_dicts, i_heap, i_calls>>
    /\ UNCHANGED notI

(***************************************************************************)
(* The lexer under interpret: readToken, readHexString, readObject         *)
(***************************************************************************)
MaxBytes == 4

\* The streams of the fair specification are half as long.
MaxFairBytes == MaxBytes \div 2

\* lex.go isSpace and isDelim.
isSpace(c) == c \in {"NUL", "\t", "\n", "\f", "\r", " "}
isDelim(c) == c \in {"<", ">", "(", ")", "[", "]", "{", "}", "/", "%"}

\* lex.go unhex on the characters of the model.
unhex(c) ==
    CASE c = "0" -> 0 [] c = "1" -> 1 [] c = "2" -> 2 [] c = "3" -> 3
      [] c = "4" -> 4 [] c = "5" -> 5 [] c = "6" -> 6 [] c = "7" -> 7
      [] c = "8" -> 8 [] c = "9" -> 9
      [] c \in {"a", "A"} -> 10 [] c \in {"b", "B"} -> 11
      [] c \in {"c", "C"} -> 12 [] c \in {"d", "D"} -> 13
      [] c \in {"e", "E"} -> 14 [] c \in {"f", "F"} -> 15
      [] OTHER -> -1

\* unhex(c)<<4 | unhex(c2) on Go ints: with a -1 on either side the result
\* is negative (-16 | v, or v<<4 | -1 = -1).
HexPair(c, c2) ==
    LET a == unhex(c)
        b == unhex(c2)
    IN IF b < 0 THEN -1
       ELSE IF a < 0 THEN b - 16
       ELSE 16 * a + b

\* The byte of a character a string token holds.
ByteOf(c) ==
    CASE c = "\n" -> 10 [] c = "%" -> 37 [] c = "(" -> 40 [] c = ")" -> 41
      [] c = "/" -> 47 [] c = "4" -> 52 [] c = "<" -> 60 [] c = ">" -> 62
      [] c = "[" -> 91 [] c = "]" -> 93 [] c = "g" -> 103

\* buffer.readByte with allowEOF: r is the position and the eof flag; past
\* the end the byte is '\n' and eof is set.
readByte(in, r) ==
    IF r.pos < Len(in)
    THEN [c |-> in[r.pos + 1], pos |-> r.pos + 1, eof |-> r.eof]
    ELSE [c |-> "\n", pos |-> r.pos, eof |-> TRUE]

\* buffer.unreadByte: reload has emptied the buffer once eof is set.
unreadByte(r) ==
    IF r.eof \/ r.pos = 0 THEN r ELSE [r EXCEPT !.pos = @ - 1]

RECURSIVE SkipComment(_, _)
\* readToken, lines 135-137.
SkipComment(in, r) ==
    IF r.c \in {"\r", "\n"} THEN r ELSE SkipComment(in, readByte(in, r))

RECURSIVE SkipSpace(_, _)
\* readToken, lines 127-141: r.c is the first byte that is neither space
\* nor comment, or atEOF is set.
SkipSpace(in, r) ==
    IF isSpace(r.c)
    THEN IF r.eof THEN [c |-> r.c, pos |-> r.pos, eof |-> r.eof, atEOF |-> TRUE]
         ELSE SkipSpace(in, readByte(in, r))
    ELSE IF r.c = "%" THEN SkipSpace(in, SkipComment(in, r))
    ELSE [c |-> r.c, pos |-> r.pos, eof |-> r.eof, atEOF |-> FALSE]

\* The tokens: a keyword or a name with its characters, an integer, a string
\* with its bytes, io.EOF.
KwTok(s)  == <<"kw", s>>
StrTok(s) == <<"str", s>>
EOFTok    == <<"eof", <<>>>>

\* What a read gives: the position after it, and the token or the panic.
Lexed(r, tok, panic) ==
    [pos |-> r.pos, eof |-> r.eof, tok |-> tok, panic |-> panic]

RECURSIVE readLiteralString(_, _, _, _)
\* readLiteralString on strings without a backslash.
readLiteralString(in, r, depth, tmp) ==
    IF r.eof THEN Lexed(r, StrTok(tmp), NoPanic)
    ELSE LET n == readByte(in, r)
         IN IF n.c = "("
            THEN readLiteralString(in, n, depth + 1, Append(tmp, ByteOf(n.c)))
            ELSE IF n.c = ")"
            THEN IF depth = 1 THEN Lexed(n, StrTok(tmp), NoPanic)
                 ELSE readLiteralString(in, n, depth - 1,
                                        Append(tmp, ByteOf(n.c)))
            ELSE readLiteralString(in, n, depth, Append(tmp, ByteOf(n.c)))

RECURSIVE readWord(_, _, _)
\* readName and readKeyword, the loop: the characters up to a delimiter or
\* a space, which is unread ('#' is not in the model).
readWord(in, r, tmp) ==
    LET n == readByte(in, r)
    IN IF isDelim(n.c) \/ isSpace(n.c)
       THEN [pos |-> unreadByte(n).pos, eof |-> n.eof, tmp |-> tmp]
       ELSE readWord(in, n, Append(tmp, n.c))

\* isInteger on a word without a sign.
isInteger(s) == Len(s) > 0 /\ \A i \in 1..Len(s) : unhex(s[i]) \in 0..9

RECURSIVE ParseInt(_)
ParseInt(s) ==
    IF s = <<>> THEN 0
    ELSE 10 * ParseInt(SubSeq(s, 1, Len(s) - 1)) + unhex(s[Len(s)])

\* readKeyword, lines 311-330.
readKeyword(in, r) ==
    LET w == readWord(in, r, <<>>)
    IN Lexed(w, IF isInteger(w.tmp) THEN <<"int", ParseInt(w.tmp)>>
                ELSE KwTok(w.tmp), NoPanic)

\* readName
readName(in, r) ==
    LET w == readWord(in, r, <<>>)
    IN Lexed(w, <<"name", w.tmp>>, NoPanic)

\* readToken, lines 127-175; "hex" stands for the call of readHexString.
readToken(in, r0) ==
    LET r == SkipSpace(in, readByte(in, r0))
    IN IF r.atEOF THEN Lexed(r, EOFTok, NoPanic)
       ELSE CASE r.c = "<" ->
                   LET n == readByte(in, r)
                   IN IF n.c = "<" THEN Lexed(n, KwTok(<<"<", "<">>), NoPanic)
                      ELSE Lexed(unreadByte(n), "hex", NoPanic)
              [] r.c = "(" -> readLiteralString(in, r, 1, <<>>)
              [] r.c \in {"[", "]", "{", "}"} -> Lexed(r, KwTok(<<r.c>>), NoPanic)
              [] r.c = "/" -> readName(in, r)
              [] r.c = ">" ->
                   LET n == readByte(in, r)
                   IN IF n.c = ">" THEN Lexed(n, KwTok(<<">", ">">>), NoPanic)
                      ELSE Lexed(unreadByte(n), EOFTok, "unexpected delimiter")
              [] OTHER ->
                   IF isDelim(r.c) THEN Lexed(r, EOFTok, "unexpected delimiter")
                   ELSE readKeyword(in, unreadByte(r))

\* readObject on a token that is not the start of an array or dictionary:
\* the keywords it refuses.
Refused(tok) ==
    tok[1] = "kw" /\ tok[2] \notin {<<"n", "u", "l", "l">>, <<"<", "<">>, <<"[">>}

\* An array or a dictionary has been read to its end: the dictionary around
\* it has its value.
Closed(open) ==
    LET rest == SubSeq(open, 1, Len(open) - 1)
    IN IF rest # <<>> /\ rest[Len(rest)] = "value"
       THEN [rest EXCEPT ![Len(rest)] = "key"]
       ELSE rest

\* What interpret, readObject, readArray and readDict do with a token: open
\* holds "array" for a readArray under way, "key" and "value" for a readDict
\* that is to read a key or a value.  The result is the new open and the
\* panic.
Deliver(open, tok) ==
    LET top == IF open = <<>> THEN "none" ELSE open[Len(open)]
        object ==
            \* readObject(tok), lines 368-381
            IF tok = KwTok(<<"[">>) THEN [open |-> Append(open, "array"), panic |-> NoPanic]
            ELSE IF tok = KwTok(<<"<", "<">>)
            THEN [open |-> Append(open, "key"), panic |-> NoPanic]
            ELSE IF Refused(tok)
            THEN [open |-> open, panic |-> "unexpected keyword"]
            ELSE [open |-> IF top = "value"
                           THEN [open EXCEPT ![Len(open)] = "key"] ELSE open,
                  panic |-> NoPanic]
    IN CASE top = "none" ->
              \* interpret, lines 63-127
              IF tok = EOFTok THEN [open |-> open, panic |-> NoPanic]
              ELSE IF tok[1] = "kw" /\ tok[2] \notin {<<"[">>, <<"]">>, <<"<", "<">>, <<">", ">">>}
              THEN [open |-> open, panic |-> NoPanic]
              ELSE object
         [] top = "array" ->
              \* readArray, lines 430-440
              IF tok = EOFTok
              THEN [open |-> open, panic |-> "stream ended with open array"]
              ELSE IF tok = KwTok(<<"]">>)
              THEN [open |-> Closed(open), panic |-> NoPanic]
              ELSE object
         [] top = "key" ->
              \* readDict, lines 446-458
              IF tok = EOFTok
              THEN [open |-> open, panic |-> "stream ended with open dict"]
              ELSE IF tok = KwTok(<<">", ">">>)
              THEN [open |-> Closed(open), panic |-> NoPanic]
              ELSE IF tok[1] # "name"
              THEN [open |-> open, panic |-> "unexpected non-name key"]
              ELSE [open |-> [open EXCEPT ![Len(open)] = "value"],
                    panic |-> NoPanic]
         [] top = "value" -> object

\* The streams of the model: nothing or the start of a hex string, and then
\* up to MaxBytes bytes.
LexBytes == {"<", ">", "(", ")", "[", "]", "/", "%", "4", "g", "\n"}
LexStreams ==
    {o \o t : o \in {<<>>, <<"<", "4">>},
              t \in UNION {[1..n -> LexBytes] : n \in 0..MaxBytes}}

LexIdle ==
    /\ l_pc = "idle"
    /\ l_in = <<>>
    /\ l_pos = 0
    /\ l_eof = FALSE
    /\ l_c = ""
    /\ l_tmp = <<>>
    /\ l_open = <<>>
    /\ l_toks = <<>>
    /\ l_panic = NoPanic

\* interpret, lines 55-58: a buffer on the stream, allowEOF set.
LexInit ==
    /\ l_pc = "token"
    /\ l_in \in LexStreams
    /\ l_pos = 0
    /\ l_eof = FALSE
    /\ l_c = ""
    /\ l_tmp = <<>>
    /\ l_open = <<>>
    /\ l_toks = <<>>
    /\ l_panic = NoPanic

\* The token tok has been read, the buffer left at r.
Delivered(r, tok) ==
    LET d == Deliver(l_open, tok)
    IN /\ l_pos' = r.pos
       /\ l_eof' = r.eof
       /\ l_toks' = Append(l_toks, tok)
       /\ l_open' = d.open
       /\ l_panic' = d.panic
       /\ l_pc' = IF d.panic # NoPanic THEN "panic"
                  ELSE IF tok = EOFTok /\ l_open = <<>> THEN "done"
                  ELSE "token"

\* interpret, readArray or readDict calls readToken; the token is handed
\* over, or readHexString starts.
NextToken ==
    /\ l_pc = "token"
    /\ LET t == readToken(l_in, [pos |-> l_pos, eof |-> l_eof])
       IN IF t.panic # NoPanic
          THEN /\ l_pc' = "panic"
               /\ l_panic' = t.panic
               /\ l_pos' = t.pos
               /\ l_eof' = t.eof
               /\ UNCHANGED <<l_open, l_toks, l_tmp>>
          ELSE IF t.tok = "hex"
          THEN /\ l_pc' = "hex"
               /\ l_tmp' = <<>>
               /\ l_pos' = t.pos
               /\ l_eof' = t.eof
               /\ UNCHANGED <<l_open, l_toks, l_panic>>
          ELSE /\ Delivered(t, t.tok)
               /\ UNCHANGED l_tmp
    /\ UNCHANGED <<l_in, l_c>>
    /\ UNCHANGED notL

\* readHexString, lines 180-187: one byte at Loop.
HexLoop ==
    /\ l_pc = "hex"
    /\ LET n == readByte(l_in, [pos |-> l_pos, eof |-> l_eof])
       IN IF n.c = ">"
          THEN /\ Delivered(n, StrTok(l_tmp))
               /\ UNCHANGED <<l_c, l_tmp>>
          ELSE /\ l_pos' = n.pos
               /\ l_eof' = n.eof
               /\ l_pc' = IF isSpace(n.c) THEN "hex" ELSE "hex2"
               /\ l_c' = IF isSpace(n.c) THEN l_c ELSE n.c
               /\ UNCHANGED <<l_tmp, l_open, l_toks, l_panic>>
    /\ UNCHANGED l_in
    /\ UNCHANGED notL

\* readHexString, lines 188-198: one byte at Loop2.
HexLoop2 ==
    /\ l_pc = "hex2"
    /\ LET n == readByte(l_in, [pos |-> l_pos, eof |-> l_eof])
           x == HexPair(l_c, n.c)
       IN /\ l_pos' = n.pos
          /\ l_eof' = n.eof
          /\ IF isSpace(n.c)
             THEN UNCHANGED <<l_pc, l_tmp, l_panic>>
             ELSE IF x < 0
             THEN /\ l_pc' = "panic"
                  /\ l_panic' = "malformed hex string"
                  /\ UNCHANGED l_tmp
             ELSE /\ l_pc' = "hex"
                  /\ l_tmp' = Append(l_tmp, x)
                  /\ UNCHANGED l_panic
    /\ UNCHANGED <<l_in, l_c, l_open, l_toks>>
    /\ UNCHANGED notL

(***************************************************************************)
(* Page.findInherited over Parent and resolve's search over Extends        *)
(***************************************************************************)
MaxChain == 3

\* The objects of a chain, and the links of the model: none, the next
\* object, or back to the first.
ChainNodes == 1..MaxChain
ChainLinks ==
    {l \in [ChainNodes -> 0..MaxChain] :
        \A i \in ChainNodes : l[i] \in {0, 1} \/ l[i] = i + 1}

ChainIdle ==
    /\ f_pc = "idle"
    /\ f_kind = ""
    /\ f_link = <<>>
    /\ f_has = {}
    /\ f_v = 0

\* findInherited, line 65: v = p.v; resolve, line 667: strm is the stream
\* the xref entry names.
ChainInit ==
    /\ f_pc = "walk"
    /\ f_kind \in {"Parent", "Extends"}
    /\ f_link \in ChainLinks
    /\ f_has \in {{}} \cup {{i} : i \in ChainNodes}
    /\ f_v = 1

\* findInherited, lines 65-70: one turn of the loop.
InheritedStep ==
    /\ f_pc = "walk"
    /\ f_kind = "Parent"
    /\ IF f_v = 0 \/ f_v \in f_has
       THEN f_pc' = "returned" /\ UNCHANGED f_v
       ELSE f_v' = f_link[f_v] /\ UNCHANGED f_pc
    /\ UNCHANGED <<f_kind, f_link, f_has>>
    /\ UNCHANGED notF

\* resolve, lines 669-695: one turn of the Search loop on an object stream
\* with Type, N and First in order.
ExtendsStep ==
    /\ f_pc = "walk"
    /\ f_kind = "Extends"
    /\ IF f_v \in f_has
       THEN f_pc' = "returned" /\ UNCHANGED f_v
       ELSE IF f_link[f_v] = 0
       THEN f_pc' = "panic" /\ UNCHANGED f_v
       ELSE f_v' = f_link[f_v] /\ UNCHANGED f_pc
    /\ UNCHANGED <<f_kind, f_link, f_has>>
    /\ UNCHANGED notF

(***************************************************************************)
(* Specifications                                                          *)
(***************************************************************************)
InitRender == BuilderInit /\ PagesIdle /\ ContentIdle /\ HeaderIdle /\ CryptIdle /\ XrefIdle /\ ResolveIdle /\ TextIdle /\ WidthsIdle /\ CMapIdle /\ MatrixIdle /\ PngIdle /\ InterpIdle /\ LexIdle /\ ChainIdle

NextRender ==
    \E x \in Xs, y \in Ys, w \in Ws, h \in Hs, font \in Fonts,
       content \in ContentsAt(Len(b_hist) + 1) :
        Render(x, y, w, h, font, content)

SpecRender == InitRender /\ [][NextRender]_vars

\* The runs and texts that exercise the weights and the merging of parts: a
\* font with Bold inside its name, whitespace-only contents, parts of two
\* sizes and weights.
FontBoldX == <<"F">> \o BoldSuffix \o <<"X">>
MergeRuns ==
    { <<FontF, <<>>>>, <<FontF, <<"a">>>>, <<FontFBold, <<"a">>>>,
      <<FontBoldX, <<"a">>>>, <<FontF, <<" ">>>>, <<FontFBold, <<" ">>>> }
AddTexts ==
    { <<>>,
      <<[Size |-> 10, Weight |-> 1, Content |-> <<"x">>]>>,
      <<[Size |-> 15, Weight |-> 0, Content |-> <<" ">>]>>,
      <<[Size |-> 10, Weight |-> 0, Content |-> <<"x">>],
        [Size |-> 10, Weight |-> 0, Content |-> <<"y">>]>>,
      <<[Size |-> 10, Weight |-> 0, Content |-> <<"x">>],
        [Size |-> 15, Weight |-> 1, Content |-> <<"\n">>]>> }

InitMerge == InitRender

NextMerge ==
    \/ \E y \in {90, 100}, h \in {10, 15}, run \in MergeRuns :
          Render(0, y, 10, h, run[1], run[2])
    \/ \E t \in AddTexts : Add(t)

SpecMerge == InitMerge /\ [][NextMerge]_vars

InitPages == PagesInit /\ BuilderIdle /\ ContentIdle /\ HeaderIdle /\ CryptIdle /\ XrefIdle /\ ResolveIdle /\ TextIdle /\ WidthsIdle /\ CMapIdle /\ MatrixIdle /\ PngIdle /\ InterpIdle /\ LexIdle /\ ChainIdle

\* The page numbers a caller asks for: from below 1 to beyond NPages + 1.
PageArgs == -1 .. (Cardinality(Nodes) + 1)

NextPages ==
    \/ \E i \in PageArgs : PageCall(i)
    \/ PageOuter
    \/ PageKid
    \/ TextCall
    \/ TextLoop
    \/ TextPage

SpecPages == InitPages /\ [][NextPages]_vars

\* Reader.Page and Reader.Text, with every step that can be taken taken in
\* the end.
FairPages == SpecPages /\ WF_vars(NextPages)

InitContent == ContentInit /\ BuilderIdle /\ PagesIdle /\ HeaderIdle /\ CryptIdle /\ XrefIdle /\ ResolveIdle /\ TextIdle /\ WidthsIdle /\ CMapIdle /\ MatrixIdle /\ PngIdle /\ InterpIdle /\ LexIdle /\ ChainIdle

NextContent ==
    \/ \E ins \in Instrs : Operator(ins.op, ins.args)
    \/ Return
    \/ Recover

SpecContent == InitContent /\ [][NextContent]_vars

NextKeywords ==
    \/ \E ins \in Instrs \cup PsInstrs : Operator(ins.op, ins.args)
    \/ Return
    \/ Recover

SpecKeywords == InitContent /\ [][NextKeywords]_vars

InitHeader == HeaderInit /\ BuilderIdle /\ PagesIdle /\ ContentIdle /\ CryptIdle /\ XrefIdle /\ ResolveIdle /\ TextIdle /\ WidthsIdle /\ CMapIdle /\ MatrixIdle /\ PngIdle /\ InterpIdle /\ LexIdle /\ ChainIdle

NextHeader ==
    \/ CheckHeader
    \/ TrimStep
    \/ CheckEOF
    \/ FindStartxref

SpecHeader == InitHeader /\ [][NextHeader]_vars

InitCrypt ==
    /\ CryptInit /\ BuilderIdle /\ PagesIdle /\ ContentIdle /\ HeaderIdle
    /\ XrefIdle /\ ResolveIdle /\ TextIdle /\ WidthsIdle /\ CMapIdle /\ MatrixIdle /\ PngIdle /\ InterpIdle /\ LexIdle /\ ChainIdle

NextCrypt ==
    \/ CheckEncrypt
    \/ FirstTry
    \/ SecondTry

SpecCrypt == InitCrypt /\ [][NextCrypt]_vars

InitXref ==
    /\ XrefInit /\ BuilderIdle /\ PagesIdle /\ ContentIdle /\ HeaderIdle
    /\ CryptIdle /\ ResolveIdle /\ TextIdle /\ WidthsIdle /\ CMapIdle /\ MatrixIdle /\ PngIdle /\ InterpIdle /\ LexIdle /\ ChainIdle

\* The entries a section can hold: offsets and object-stream indexes name
\* the section they come from.
Gens == {0}
Offsets == {0, 100 * x_sec}

NextXref ==
    \/ \E start \in Objs, n \in 1..2 : Subsection(start, n)
    \/ \E off \in Offsets, gen \in Gens, alloc \in {"n", "f"} :
          TableEntry(off, gen, alloc)
    \/ \E v1 \in 0..3, v2 \in Offsets, v3 \in Gens : StreamEntry(v1, v2, v3)
    \/ \E hasPrev \in BOOLEAN : TableTrailer(hasPrev)
    \/ \E hasPrev \in BOOLEAN, psize \in 1..3 : StreamPrev(hasPrev, psize)
    \/ XrefError

SpecXref == InitXref /\ [][NextXref]_vars

InitResolve ==
    /\ ResolveInit /\ BuilderIdle /\ PagesIdle /\ ContentIdle /\ HeaderIdle
    /\ CryptIdle /\ XrefIdle /\ TextIdle /\ WidthsIdle /\ CMapIdle /\ MatrixIdle /\ PngIdle /\ InterpIdle /\ LexIdle /\ ChainIdle

NextResolve ==
    \/ \E ptr \in Ptrs : ResolveCall(ptr)
    \/ Lookup
    \/ \E obj \in Found : InFile(obj)
    \/ \E n \in 0..2 : Check(n)
    \/ \E id \in Int64s, obj \in Bodies : SearchPair(id, obj)
    \/ \E hasExt \in BOOLEAN, ext \in {Objptr(1, 0), Objptr(2, 0)} :
          SearchEnd(hasExt, ext)

SpecResolve == InitResolve /\ [][NextResolve]_vars

InitText ==
    /\ TextInit /\ BuilderIdle /\ PagesIdle /\ ContentIdle /\ HeaderIdle
    /\ CryptIdle /\ XrefIdle /\ ResolveIdle /\ WidthsIdle /\ CMapIdle /\ MatrixIdle /\ PngIdle /\ InterpIdle /\ LexIdle /\ ChainIdle

NextText ==
    \/ \E sep \in Seps : CallSplit(sep)
    \/ CallTrimSpace

SpecText == InitText /\ [][NextText]_vars

InitWidths ==
    /\ WidthsInit /\ BuilderIdle /\ PagesIdle /\ ContentIdle /\ HeaderIdle
    /\ CryptIdle /\ XrefIdle /\ ResolveIdle /\ TextIdle /\ CMapIdle /\ MatrixIdle /\ PngIdle /\ InterpIdle /\ LexIdle /\ ChainIdle

NextWidths ==
    \/ GetWidths
    \/ \E code \in Codes : LookupCode(code)

SpecWidths == InitWidths /\ [][NextWidths]_vars

InitCMap ==
    /\ CMapInit /\ BuilderIdle /\ PagesIdle /\ ContentIdle /\ HeaderIdle
    /\ CryptIdle /\ XrefIdle /\ ResolveIdle /\ TextIdle /\ WidthsIdle /\ MatrixIdle /\ PngIdle /\ InterpIdle /\ LexIdle /\ ChainIdle

NextCMap == \E raw \in Raws : CallDecode(raw)

SpecCMap == InitCMap /\ [][NextCMap]_vars

InitMatrix ==
    /\ MatrixInit /\ BuilderIdle /\ PagesIdle /\ ContentIdle /\ HeaderIdle
    /\ CryptIdle /\ XrefIdle /\ ResolveIdle /\ TextIdle /\ WidthsIdle
    /\ CMapIdle /\ PngIdle /\ InterpIdle /\ LexIdle /\ ChainIdle

NextMatrix == CallMul

SpecMatrix == InitMatrix /\ [][NextMatrix]_vars

InitPng ==
    /\ PngInit /\ BuilderIdle /\ PagesIdle /\ ContentIdle /\ HeaderIdle
    /\ CryptIdle /\ XrefIdle /\ ResolveIdle /\ TextIdle /\ WidthsIdle
    /\ CMapIdle /\ MatrixIdle /\ InterpIdle /\ LexIdle /\ ChainIdle

NextPng == \E n \in {1, 4} : Read(n)

SpecPng == InitPng /\ [][NextPng]_vars

InitInterp ==
    /\ InterpInit /\ BuilderIdle /\ PagesIdle /\ ContentIdle /\ HeaderIdle
    /\ CryptIdle /\ XrefIdle /\ ResolveIdle /\ TextIdle /\ WidthsIdle
    /\ CMapIdle /\ MatrixIdle /\ PngIdle /\ LexIdle /\ ChainIdle

NextInterp ==
    \/ ReadToken
    \/ ReadEOF

SpecInterp == InitInterp /\ [][NextInterp]_vars

InitLex ==
    /\ LexInit /\ BuilderIdle /\ PagesIdle /\ ContentIdle /\ HeaderIdle
    /\ CryptIdle /\ XrefIdle /\ ResolveIdle /\ TextIdle /\ WidthsIdle
    /\ CMapIdle /\ MatrixIdle /\ PngIdle /\ InterpIdle /\ ChainIdle

NextLex ==
    \/ NextToken
    \/ HexLoop
    \/ HexLoop2

SpecLex == InitLex /\ [][NextLex]_vars

\* The lexer on the shorter streams, with every step that can be taken
\* taken in the end.
InitFairLex == InitLex /\ Len(l_in) <= MaxFairBytes

FairLex == InitFairLex /\ [][NextLex]_vars /\ WF_vars(NextLex)

InitChain ==
    /\ ChainInit /\ BuilderIdle /\ PagesIdle /\ ContentIdle /\ HeaderIdle
    /\ CryptIdle /\ XrefIdle /\ ResolveIdle /\ TextIdle /\ WidthsIdle
    /\ CMapIdle /\ MatrixIdle /\ PngIdle /\ InterpIdle /\ LexIdle

NextChain ==
    \/ InheritedStep
    \/ ExtendsStep

\* The walks, with every step that can be taken taken in the end.
FairChain == InitChain /\ [][NextChain]_vars /\ WF_vars(NextChain)

(***************************************************************************)
(* Properties                                                              *)
(***************************************************************************)
\* The call a step makes, and whether the step is a Render of non-empty content.
LastCall == b_hist[Len(b_hist)]
ShowsNow == Len(b_hist') = Len(b_hist) + 1 /\ Len(b_hist'[Len(b_hist')].content) > 0

\* The text grew by exactly the separator sep followed by the call's content.
GrewBy(sep) ==
    Concat(b_text') = Concat(b_text) \o sep \o b_hist'[Len(b_hist')].content

\* C9 as stated: Render with non-empty content inserts no separator on the
\* first call; on later calls the paragraph separator when y > prev_y or
\* y < prev_y - 2h, the line separator when prev_y - 2h <= y < prev_y, and
\* nothing when y = prev_y; afterwards prev_y = y.
C9_AsStated ==
    [][ShowsNow =>
        LET y == b_hist'[Len(b_hist')].y
            h == b_hist'[Len(b_hist')].h
        IN /\ b_y' = y
           /\ (b_shown = 0) => GrewBy(NoSep)
           /\ (b_shown > 0 /\ (y > b_y \/ y < b_y - 2 * h)) => GrewBy(ParaSep)
           /\ (b_shown > 0 /\ b_y - 2 * h <= y /\ y < b_y) => GrewBy(LineSep)
           /\ (b_shown > 0 /\ y = b_y) => GrewBy(NoSep)]_vars

\* C9 amended: as C9, but y = prev_y inserts nothing only when h >= 0; with a
\* negative h, y = prev_y lies below prev_y - 2h and starts a paragraph.
C9_Separators ==
    [][ShowsNow =>
        LET y == b_hist'[Len(b_hist')].y
            h == b_hist'[Len(b_hist')].h
        IN /\ b_y' = y
           /\ (b_shown = 0) => GrewBy(NoSep)
           /\ (b_shown > 0 /\ (y > b_y \/ y < b_y - 2 * h)) => GrewBy(ParaSep)
           /\ (b_shown > 0 /\ b_y - 2 * h <= y /\ y < b_y) => GrewBy(LineSep)
           /\ (b_shown > 0 /\ y = b_y /\ h >= 0) => GrewBy(NoSep)]_vars

\* A later call one line below the previous one has run: its content follows
\* a line separator, on the boundary y = prev_y - 2h.
C9_Witness ==
    /\ b_shown >= 2
    /\ Len(b_hist) >= 2
    /\ Len(LastCall.content) > 0
    /\ Len(b_hist[Len(b_hist) - 1].content) > 0
    /\ LastCall.y = b_hist[Len(b_hist) - 1].y - 2 * LastCall.h
    /\ LastCall.h > 0
    /\ b_y = LastCall.y
    /\ HasSuffix(Concat(b_text), LineSep \o LastCall.content)
    /\ ~HasSuffix(Concat(b_text), ParaSep \o LastCall.content)

\* The three calls of the paragraphing scenario.
Scenario ==
    << Call(0, 100, 10, 10, FontF, <<"a">>),
       Call(0, 90, 10, 10, FontF, <<"b">>),
       Call(0, 60, 10, 10, FontF, <<"c">>) >>

Part(size, weight, content) ==
    [Size |-> size, Weight |-> weight, Content |-> content]

\* C10 as stated: the scenario yields the three parts
\* [{10,0,"a"}, {10,0,"\nb"}, {10,0,"\n\nc"}].
C10_AsStated ==
    (b_hist = Scenario) =>
        b_text = << Part(10, 0, <<"a">>),
                    Part(10, 0, <<"\n", "b">>),
                    Part(10, 0, <<"\n", "\n", "c">>) >>

\* C10 amended: the scenario yields the single part {10,0,"a\nb\n\nc"}: the
\* three runs have the same size and weight, so they merge.
C10_Scenario ==
    (b_hist = Scenario) =>
        b_text = << Part(10, 0, <<"a", "\n", "b", "\n", "\n", "c">>) >>

\* The scenario's three calls have been made.
C10_Witness == b_hist = Scenario /\ b_shown = 3

\* Reader.Page has returned to its caller.
PageReturned == pg_pc \in {"found", "notfound"}

\* C4: in a tree whose Counts equal the numbers of Page leaves, Page(i) with
\* 1 <= i <= NPages() selects the i-th Page leaf in depth-first, left-to-right
\* order, and Text(), when it returns texts, returns one per page in page
\* order (and it does return them when no page fails).
C4_PageOrder ==
    Consistent =>
        /\ (PageReturned /\ 1 <= pg_i /\ pg_i <= NPages) =>
               (pg_pc = "found" /\ pg_res = Leaves[pg_i])
        /\ (t_pc = "done" /\ t_err = "nil") =>
               t_tt = [k \in 1..NPages |-> TextOf(Leaves[k])]
        /\ (t_pc = "done" /\ p_fail = 0) => t_err = "nil"

\* Text() has returned the texts of two pages, one of them a leaf of a nested
\* Pages node that follows a leaf of the root.
C4_Witness ==
    /\ Consistent
    /\ t_pc = "done" /\ t_err = "nil"
    /\ Len(t_tt) = 2
    /\ \E n \in Nodes : n # RootNode /\ p_tree[n].type = "Pages"
                        /\ t_tt[2] \in {p_tree[n].kids[j] : j \in 1..Len(p_tree[n].kids)}

\* C5 as stated: in a consistent tree, Page(i) with i > NPages() reports that
\* the page is not found and never returns an existing page.
C5_AsStated ==
    (Consistent /\ PageReturned /\ pg_i > NPages) => pg_pc = "notfound"

\* C2 as stated: when Text() returns, the text of every page whose
\* interpretation did not fail is returned, in its place.
C2_AsStated ==
    (Consistent /\ t_pc = "done") =>
        \A k \in 1..NPages :
            Leaves[k] # p_fail =>
                (k <= Len(t_tt) /\ t_tt[k] = TextOf(Leaves[k]))

\* C3: Page.Text never propagates a panic: whatever the operators of the
\* content stream (Q on an empty stack, Td/T*/Tj outside BT...ET, Tj with no
\* font, too few operands), it returns (text, nil) or (nil, non-nil error).
C3_NoPanicEscapes ==
    /\ c_pc # "propagated"
    /\ c_pc = "returned" =>
          /\ c_panic = NoPanic
          /\ \/ c_err = "nil" /\ c_result = c_out.text
             \/ c_err \notin {"nil", "none"} /\ c_result = <<>>

\* Q on an empty graphics-state stack panicked after the page had shown text,
\* and Page.Text has returned.
C3_Witness ==
    /\ c_pc = "returned"
    /\ c_err = "failed to read page text"
    /\ c_last.op = "Q" /\ c_stack = <<>>
    /\ c_out.text # <<>>
    /\ c_result = <<>>

\* The source has no %PDF-1.x header (x in 0..7) at its start.
LacksHeader(file) ==
    ~(/\ HasPrefix(file, PdfMagic)
      /\ Len(file) >= 8
      /\ file[8] \in {"0", "1", "2", "3", "4", "5", "6", "7"})

\* The marker %%EOF occurs nowhere in the source.
LacksEOF(file) == LastIndex(file, EOFMarker) = -1

\* NewReaderEncrypted has ended, or has gone past the header and the tail.
HeaderDone == h_pc \in {"returned", "panic", "startxref"}

\* C6 as stated: construction on a source that lacks the %PDF-1.x header or
\* the %%EOF marker ends with a returned error, for every such source.
C6_AsStated ==
    (HeaderDone /\ (LacksHeader(h_file) \/ LacksEOF(h_file))) =>
        (h_pc = "returned" /\ h_err # "none")

\* The trailer has a well-formed Encrypt dictionary of a supported revision.
WellFormed(t) ==
    /\ t.hasEncrypt /\ t.ID
    /\ t.Encrypt.Filter = "Standard"
    /\ <<t.Encrypt.V, t.Encrypt.R, t.Encrypt.Length, t.Encrypt.CF>> \in GoodProfiles
    /\ t.Encrypt.O = 32
    /\ t.Encrypt.ULen = (IF t.Encrypt.R = 6 THEN 48 ELSE 32)
    /\ t.Encrypt.UE /\ t.Encrypt.Perms

CryptDone == e_pc \in {"returned", "panic"}

\* C1 as stated: for R = 2, 3, 4 and 6, on a file encrypted with a non-empty
\* user password, construction with a wrong password fails with
\* ErrInvalidPassword, and with the correct user password it succeeds after
\* the empty password was rejected.
C1_AsStated ==
    (CryptDone /\ WellFormed(e_trailer) /\ e_upw # <<>>) =>
        /\ e_pc = "returned"
        /\ e_pw # e_upw => e_err = ErrInvalidPassword
        /\ e_pw = e_upw => (e_err = "nil" /\ e_dec # <<>>)

\* C7 as stated: while the Prev chain is walked, an entry populated from a
\* newer section (for a table an `n` entry with a non-zero offset, for a
\* stream an entry different from the empty one) is never overwritten by
\* an entry of the same object number read from an older section.
C7_AsStated ==
    [][\A x \in Objs :
          (/\ x_by[x] # 0 /\ x_by[x] < x_sec
           /\ x < Len(x_table')
           /\ x_table[x + 1] # ZeroXref
           /\ (x_kind = "table" => x_table[x + 1].Offset # 0)) =>
              x_table'[x + 1] = x_table[x + 1]]_vars

\* C8 as stated: a value resolve returns for ptr, other than null, is the
\* object of a definition under ptr: an in-file definition with that number
\* and generation, or the object listed under that number in an object
\* stream (generation 0).
C8_AsStated ==
    (r_pc = "returned" /\ r_val.kind # "null") =>
        r_val.def = <<<<0, r_req.ID>>, r_req.Gen>>

\* The part the last call's content was added to.
LastPart == b_text[Len(b_text)]

\* C11 as stated: after every Render of a non-empty content, the part that
\* holds the content has weight 1 if the font name ends in "-Bold" and
\* weight 0 otherwise.
C11_AsStated ==
    [][ShowsNow =>
        /\ HasSuffix(b_text'[Len(b_text')].Content, b_hist'[Len(b_hist')].content)
        /\ b_text'[Len(b_text')].Weight =
              (IF HasSuffix(b_hist'[Len(b_hist')].font, BoldSuffix) THEN 1 ELSE 0)]_vars

\* C11 amended: the same for every content that has a character other than
\* whitespace, and for a whitespace-only content rendered into an empty
\* builder; a whitespace-only content rendered after a part exists is
\* appended to that part, whose weight does not change.
C11_BoldParts ==
    [][ShowsNow =>
        LET c == b_hist'[Len(b_hist')]
        IN /\ HasSuffix(b_text'[Len(b_text')].Content, c.content)
           /\ (~IsWhitespace(c.content) \/ Len(b_text) = 0) =>
                 b_text'[Len(b_text')].Weight =
                   (IF HasSuffix(c.font, BoldSuffix) THEN 1 ELSE 0)
           /\ (IsWhitespace(c.content) /\ Len(b_text) > 0) =>
                 /\ Len(b_text') = Len(b_text)
                 /\ b_text'[Len(b_text')].Weight = b_text[Len(b_text)].Weight]_vars

\* A bold run has been rendered after a regular one: the builder holds a
\* part of weight 0 followed by the part of weight 1 with the bold content.
C11_Witness ==
    /\ Len(b_hist) >= 2
    /\ LastCall.op = "Render"
    /\ LastCall.font = FontFBold
    /\ LastCall.content = <<"a">>
    /\ Len(b_text) >= 2
    /\ b_text[Len(b_text) - 1].Weight = 0
    /\ LastPart.Weight = 1
    /\ HasSuffix(LastPart.Content, <<"a">>)

\* The piece a call hands to add, for the calls that make one add: a Render
\* of a non-empty content and an Add of a one-part Text.
OneAdd(c) ==
    \/ c.op = "Render" /\ Len(c.content) > 0
    \/ c.op = "Add" /\ Len(c.t) = 1
Piece(c) ==
    IF c.op = "Render"
    THEN [Size |-> c.h,
          Weight |-> IF HasSuffix(c.font, BoldSuffix) THEN 1 ELSE 0,
          Content |-> c.content]
    ELSE c.t[1]

\* C18: a call never modifies the parts before the last one; a piece is
\* appended to the last part when there is one and the piece is
\* whitespace-only or has the last part's size and weight, and otherwise
\* becomes a new last part with the piece's size and weight.
C18_MergePolicy ==
    [][Len(b_hist') = Len(b_hist) + 1 =>
        LET c == b_hist'[Len(b_hist')]
            n == Len(b_text)
            p == Piece(c)
        IN /\ Len(b_text') >= n
           /\ \A i \in 1..(n - 1) : b_text'[i] = b_text[i]
           /\ n > 0 => /\ b_text'[n].Size = b_text[n].Size
                       /\ b_text'[n].Weight = b_text[n].Weight
                       /\ HasPrefix(b_text'[n].Content, b_text[n].Content)
           /\ OneAdd(c) =>
                 IF /\ n > 0
                    /\ \/ IsWhitespace(p.Content)
                       \/ (b_text[n].Size = p.Size /\ b_text[n].Weight = p.Weight)
                 THEN /\ Len(b_text') = n
                      /\ HasSuffix(b_text'[n].Content, p.Content)
                      /\ Len(b_text'[n].Content) >=
                            Len(b_text[n].Content) + Len(p.Content)
                 ELSE /\ Len(b_text') = n + 1
                      /\ b_text'[n + 1].Size = p.Size
                      /\ b_text'[n + 1].Weight = p.Weight
                      /\ HasSuffix(b_text'[n + 1].Content, p.Content)]_vars

\* A whitespace-only content of another size has been rendered after two
\* parts: it went into the last part, and the builder still has two parts.
C18_Witness ==
    /\ Len(b_hist) = 3
    /\ Len(b_text) = 2
    /\ LastCall.op = "Render"
    /\ LastCall.content = <<" ">>
    /\ LastCall.h # LastPart.Size
    /\ HasSuffix(LastPart.Content, <<" ">>)
    /\ b_text[1].Weight # LastPart.Weight

\* The characters of a Text in order, each with the size and weight of its
\* part.
RECURSIVE Styled(_)
Styled(t) ==
    IF t = <<>> THEN <<>>
    ELSE [i \in 1..Len(t[1].Content) |->
             <<t[1].Content[i], t[1].Size, t[1].Weight>>] \o Styled(Tail(t))

\* The styled characters of all segments in order.
RECURSIVE StyledAll(_)
StyledAll(segs) ==
    IF segs = <<>> THEN <<>> ELSE Styled(segs[1]) \o StyledAll(Tail(segs))

\* The positions of the one-character separator c in s, and the k-th piece
\* of s between them.
SepAt(s, c) == {i \in 1..Len(s) : s[i] = c}
NthSep(s, c, k) ==
    IF k = 0 THEN 0
    ELSE IF k > Cardinality(SepAt(s, c)) THEN Len(s) + 1
    ELSE CHOOSE i \in SepAt(s, c) :
            Cardinality({j \in SepAt(s, c) : j < i}) = k - 1
PieceOf(s, c, k) == SubSeq(s, NthSep(s, c, k - 1) + 1, NthSep(s, c, k) - 1)
NotSep(sc) == sc[1] # tx_sep[1]

\* The segments are the pieces of the Text between the separators, in order.
SegmentsCut ==
    /\ tx_in = <<>> => tx_segs = <<>>
    /\ tx_in # <<>> =>
          /\ Len(tx_segs) = Cardinality(SepAt(Concat(tx_in), tx_sep[1])) + 1
          /\ \A k \in 1..Len(tx_segs) :
                Concat(tx_segs[k]) = PieceOf(Concat(tx_in), tx_sep[1], k)

\* C12 as stated: Split returns the pieces between the separators in order
\* (none for an empty Text), and every character of a segment is in a part
\* with the size and weight of the part it was cut from.
C12_AsStated ==
    tx_pc = "split" =>
        /\ SegmentsCut
        /\ StyledAll(tx_segs) = SelectSeq(Styled(tx_in), NotSep)

\* A string of whitespace only; the empty string is one.
Blank(s) == \A i \in 1..Len(s) : IsSpace(s[i])

\* The pieces of a Text in order: the content of each part cut at the
\* one-character separator c, every piece with the size and weight of its
\* part; cut marks a piece that follows a separator.
RECURSIVE PiecesOf(_, _)
PiecesOf(t, c) ==
    IF t = <<>> THEN <<>>
    ELSE [k \in 1..(Cardinality(SepAt(t[1].Content, c)) + 1) |->
             [Size |-> t[1].Size, Weight |-> t[1].Weight,
              Content |-> PieceOf(t[1].Content, c, k), cut |-> k > 1]]
         \o PiecesOf(Tail(t), c)

\* The piece that opens the part which piece j is laid into, h being that
\* piece for j - 1: the first piece of the Text and a piece after a
\* separator open a segment and its first part; a later piece with a
\* character other than whitespace opens a part when its size or weight is
\* not that of the part before it; every other piece joins that part.
HeadAfter(P, j, h) ==
    IF j = 1 \/ P[j].cut THEN j
    ELSE IF ~Blank(P[j].Content)
            /\ <<P[j].Size, P[j].Weight>> # <<P[h].Size, P[h].Weight>>
    THEN j
    ELSE h
AppendHead(P, j, H) == Append(H, HeadAfter(P, j, H[j - 1]))

RECURSIVE Heads(_, _)
\* HeadAfter for the pieces 1..j.
Heads(P, j) ==
    IF j = 0 THEN <<>>
    ELSE IF j = 1 THEN <<1>>
    ELSE AppendHead(P, j, Heads(P, j - 1))

RECURSIVE Gathered(_, _, _, _)
\* The contents of the pieces from j on that are laid into the part of h.
Gathered(P, H, h, j) ==
    IF j > Len(P) \/ H[j] # h THEN <<>>
    ELSE P[j].Content \o Gathered(P, H, h, j + 1)

\* The parts that the pieces make, in order, each marked with whether it is
\* the first of a segment.
IsHead(q) == q.head
PartsOfPieces(P, H) ==
    SelectSeq([j \in 1..Len(P) |->
                 [Size |-> P[j].Size, Weight |-> P[j].Weight,
                  Content |-> IF H[j] = j THEN Gathered(P, H, j, j) ELSE <<>>,
                  opens |-> (j = 1 \/ P[j].cut), head |-> (H[j] = j)]],
              IsHead)

RECURSIVE FlatParts(_)
\* The parts of all segments in order, marked in the same way.
FlatParts(segs) ==
    IF segs = <<>> THEN <<>>
    ELSE [i \in 1..Len(segs[1]) |->
             [Size |-> segs[1][i].Size, Weight |-> segs[1][i].Weight,
              Content |-> segs[1][i].Content, opens |-> (i = 1),
              head |-> TRUE]]
         \o FlatParts(Tail(segs))

\* C12 amended: Split returns the pieces between the separators in order
\* (none for an empty Text), no segment is empty, and the parts of a segment
\* are made of its pieces in order: the first piece opens a part with the
\* size and weight of the part it was cut from; a later piece that is empty
\* or whitespace only is appended to the last part, whatever that part's
\* size and weight; a later piece with another character is appended to the
\* last part when that part has its size and weight, and opens a part with
\* its size and weight when not.
C12_Split ==
    tx_pc = "split" =>
        /\ SegmentsCut
        /\ \A k \in 1..Len(tx_segs) : tx_segs[k] # <<>>
        /\ \A P \in {PiecesOf(tx_in, tx_sep[1])} :
              \A H \in {Heads(P, Len(P))} :
                 FlatParts(tx_segs) = PartsOfPieces(P, H)

\* A two-part Text with the separator in both parts has been split into
\* three segments, the middle one made of pieces of both parts.
C12_Witness ==
    /\ tx_pc = "split"
    /\ Len(tx_in) = 2
    /\ Len(tx_segs) = 3
    /\ Len(tx_segs[2]) = 2
    /\ tx_segs[2][1].Size = tx_in[1].Size
    /\ tx_segs[2][2].Size = tx_in[2].Size
    /\ tx_in[1].Size # tx_in[2].Size

\* s without its leading and trailing whitespace.
Trimmed(s) ==
    LET ns == {i \in 1..Len(s) : ~IsSpace(s[i])}
    IN IF ns = {} THEN <<>>
       ELSE SubSeq(s, CHOOSE i \in ns : \A j \in ns : i <= j,
                      CHOOSE i \in ns : \A j \in ns : j <= i)

\* C13 as stated: the string of the trimmed Text is the string of the Text
\* without its leading and trailing whitespace.
C13_AsStated ==
    tx_pc = "trimmed" => Concat(tx_trim) = Trimmed(Concat(tx_in))

\* The spans of w_widths that hold w_code.
Inside == {i \in 1..Len(w_widths.spans) :
              w_code >= w_widths.spans[i].first /\ w_code <= w_widths.spans[i].last}

\* C15 as stated: for the widths getWidths built, CodeWidth returns: outside
\* all spans the default width, and otherwise the value of a span that holds
\* the code: linear[code - first] for a linear span, fixed for a fixed span.
C15_AsStated ==
    (w_pc \in {"looked", "panic"} /\ ~w_widths.panic) =>
        /\ ~w_out.panic
        /\ Inside = {} => w_out.w = w_widths.defaultW
        /\ Inside # {} =>
              \E i \in Inside :
                 LET s == w_widths.spans[i]
                 IN IF Len(s.linear) > 0
                    THEN /\ w_code - s.first < Len(s.linear)
                         /\ w_out.w = s.linear[w_code - s.first + 1]
                    ELSE w_out.w = s.fixed

\* The CMap of the claim: the codespace 00..FF and the bfchar 41 -> "A".
OneBFChar ==
    /\ m_cmap.Space = << <<ByteRange(<<0>>, <<255>>)>>, <<>>, <<>>, <<>> >>
    /\ m_cmap.BFChars = <<BFChar(<<65>>, <<0, 65>>)>>
    /\ m_cmap.BFRanges = <<>>

\* C14 as stated: with that CMap, decoding 41 42 yields "A" followed by
\* the no-match rune, and the width lookup(0x41) + lookup(0x42).
C14_AsStated ==
    (m_pc \in {"decoded", "panic"} /\ OneBFChar /\ m_raw = <<65, 66>>) =>
        /\ m_pc = "decoded"
        /\ m_text = <<65, NoRune>>
        /\ m_w = CodeWidth(m_cmap.Widths, 65).w + CodeWidth(m_cmap.Widths, 66).w

\* A matrix without rotation terms whose last column is {0, 0, 1}.
LastColumn(m) == m[1][3] = F(0) /\ m[2][3] = F(0) /\ m[3][3] = F(1)
NonRotating(m) == m[1][2] = F(0) /\ m[2][1] = F(0) /\ LastColumn(m)

\* Every entry of m is a number.
Finite(m) == \A i \in 1..3 : \A j \in 1..3 : m[i][j].d # 0

\* The 3x3 product of matrices of integers, entry by entry.
Product(m, n) ==
    [i \in 1..3 |-> [j \in 1..3 |->
        F(m[i][1].n * n[1][j].n + m[i][2].n * n[2][j].n
            + m[i][3].n * n[3][j].n)]]

\* C16 as stated: for non-rotating M and N both short-circuited variants
\* of Mul return what the triple loop returns, and identity is a left and a
\* right identity of Mul.
C16_AsStated ==
    k_pc = "done" =>
        /\ (NonRotating(k_m) /\ NonRotating(k_n)) =>
              (k_rot = k_full /\ k_sparse = k_full)
        /\ (k_m = identity /\ LastColumn(k_n)) =>
              (k_full = k_n /\ k_rot = k_n /\ k_sparse = k_n)
        /\ (k_n = identity /\ LastColumn(k_m)) =>
              (k_full = k_m /\ k_rot = k_m /\ k_sparse = k_m)

\* C16 amended: on matrices whose entries are numbers the triple loop gives
\* the 3x3 product; for non-rotating M and N both short-circuited variants
\* of Mul return that product; identity is a left and a right identity of
\* the triple loop and of the sparse() variant, and of the rotation()
\* variant for matrices with the last column {0, 0, 1}.
C16_MulShortCircuit ==
    (k_pc = "done" /\ Finite(k_m) /\ Finite(k_n)) =>
        /\ k_full = Product(k_m, k_n)
        /\ (NonRotating(k_m) /\ NonRotating(k_n)) =>
              (k_rot = Product(k_m, k_n) /\ k_sparse = Product(k_m, k_n))
        /\ k_m = identity =>
              /\ k_full = k_n /\ k_sparse = k_n
              /\ LastColumn(k_n) => k_rot = k_n
        /\ k_n = identity =>
              /\ k_full = k_m /\ k_sparse = k_m
              /\ LastColumn(k_m) => k_rot = k_m

\* Two non-rotating matrices that scale and translate have been multiplied.
C16_Witness ==
    /\ k_pc = "done"
    /\ NonRotating(k_m) /\ NonRotating(k_n)
    /\ k_m[1][1] = F(2) /\ k_n[1][1] = F(-1)
    /\ k_m[3][1] = F(3) /\ k_n[3][1] = F(3)
    /\ k_rot[3][1] = F(0)
    /\ k_sparse = k_rot

\* The file as rows of Columns + 1 bytes (a last partial row left out), and
\* whether it is made of whole rows that all start with 2.
NRows == Len(g_file) \div (g_cols + 1)
RowByte(k, c) == g_file[(k - 1) * (g_cols + 1) + 1 + c]
WellFormedPng ==
    /\ Len(g_file) = NRows * (g_cols + 1)
    /\ \A k \in 1..NRows : RowByte(k, 0) = 2

\* The sum, and the XOR, of the payload bytes of column c in rows 1..k.
RECURSIVE SumDown(_, _)
SumDown(k, c) == IF k = 0 THEN 0 ELSE (SumDown(k - 1, c) + RowByte(k, c)) % 256
RECURSIVE XorDown(_, _)
XorDown(k, c) == IF k = 0 THEN 0 ELSE Xor(XorDown(k - 1, c), RowByte(k, c))

\* The whole rows taken from the underlying reader so far, and those of
\* the rows 1..k that do not start with 2.
Taken == (Len(g_file) - Len(g_in)) \div (g_cols + 1)
BadRows(k) == {j \in 1..k : RowByte(j, 0) # 2}

\* The sum of the payload bytes of column c in those of the rows 1..k that
\* start with 2, and the rows delivered for the rows 1..k: one for each row
\* that starts with 2.
RECURSIVE GoodSum(_, _)
GoodSum(k, c) ==
    IF k = 0 THEN 0
    ELSE IF RowByte(k, 0) # 2 THEN GoodSum(k - 1, c)
    ELSE (GoodSum(k - 1, c) + RowByte(k, c)) % 256
RECURSIVE Decoded(_)
Decoded(k) ==
    IF k = 0 THEN <<>>
    ELSE IF RowByte(k, 0) # 2 THEN Decoded(k - 1)
    ELSE Decoded(k - 1) \o [c \in 1..g_cols |-> GoodSum(k, c)]

\* Every row that does not start with 2 has made the Read that took it
\* return the malformed error, and after that Read the rows before it have
\* been delivered.
BadRowsFail ==
    /\ g_bad = Cardinality(BadRows(Taken))
    /\ g_err = "malformed" =>
          /\ Taken \in BadRows(Taken)
          /\ g_pend = <<>>
          /\ g_out = Decoded(Taken - 1)

\* C17 as stated: N rows with leading byte 2 are read as N rows in which
\* row k is, per column, the XOR of the payload bytes of the rows up to k;
\* a row whose leading byte is not 2 yields an error.
C17_AsStated ==
    /\ (g_pc = "eof" /\ WellFormedPng) =>
          g_out = [i \in 1..(NRows * g_cols) |->
                     XorDown(((i - 1) \div g_cols) + 1, ((i - 1) % g_cols) + 1)]
    /\ BadRowsFail

\* C17 amended: the same with the sum modulo 256 in place of the XOR.  The
\* reader goes on after a malformed row: at every moment the bytes
\* delivered, with those pending, are the sums down the rows taken that
\* start with 2.
C17_PngUp ==
    LET rows == [i \in 1..(NRows * g_cols) |->
                    SumDown(((i - 1) \div g_cols) + 1, ((i - 1) % g_cols) + 1)]
    IN /\ (g_pc = "eof" /\ WellFormedPng) => g_out = rows
       /\ g_out \o g_pend = Decoded(Taken)
       /\ BadRowsFail

\* Two rows of two columns have been read to the end, with a column whose
\* sum wraps around 256 and a column whose sum is not the XOR.
C17_Witness ==
    /\ g_pc = "eof"
    /\ WellFormedPng
    /\ g_cols = 2
    /\ NRows = 2
    /\ g_out = <<255, 1, 0, 2>>

\* The handler's world in the current state, and the handler run over a
\* sequence of instructions from it, stopping at the first panic.
Machine ==
    [g |-> c_g, stack |-> c_stack, out |-> c_out, panic |-> NoPanic,
     ps |-> c_ps]
RECURSIVE Run(_, _)
Run(m, seq) ==
    IF seq = <<>> \/ m.panic # NoPanic THEN m
    ELSE Run(interpret(m, c_decoders, seq[1].op, seq[1].args), Tail(seq))

\* The sequences S of the check: balanced in q and Q, of up to one operator
\* outside a nested q ... Q, and of up to three operators in all.
Plain == {i \in Instrs : i.op \notin {"q", "Q"}}
Balanced ==
    {<<>>} \cup {<<i>> : i \in Plain}
           \cup {<<Instr("q", <<>>), Instr("Q", <<>>)>>}
           \cup {<<Instr("q", <<>>), i, Instr("Q", <<>>)>> : i \in Plain}

\* g with the ctm it has once a q has been read.
Defaulted(g) == IF g.ctm = NilM THEN [g EXCEPT !.ctm = identity] ELSE g

\* The same sequences run by the variant that holds the ctm alone: cm is the
\* one operator of S that reaches it.
RECURSIVE RunCTM(_, _)
RunCTM(g, seq) ==
    IF seq = <<>> \/ g.panic # NoPanic THEN g
    ELSE LET i == seq[1]
         IN RunCTM(IF i.op = "q" THEN PushCTM(g)
                   ELSE IF i.op = "Q" THEN PopCTM(g)
                   ELSE IF i.op = "cm" /\ Has(i.args, 5)
                   THEN CMCTM(g, F(Float64(i.args[1])), F(Float64(i.args[2])),
                              F(Float64(i.args[3])), F(Float64(i.args[4])),
                              F(Float64(i.args[5])), F(Float64(i.args[6])))
                   ELSE g,
                   Tail(seq))

\* C19: from every state the handler reaches, q S Q with S balanced in q
\* and Q, when it runs without a panic, leaves the ctm (identity for one
\* not yet set), tc, tw, the horizontal scale, the leading, the font, the
\* font size, tm and tlm as they were before the q, and the stack as deep
\* as it was; inside, after q S, the stack is one deeper.  The same holds
\* for the ctm of the variant of Graphics that holds the ctm alone.
C19_SaveRestore ==
    c_pc = "run" =>
      \A S \in Balanced :
       \A inner \in {Run(Machine, <<Instr("q", <<>>)>> \o S)} :
        LET after == Run(inner, <<Instr("Q", <<>>)>>)
            g0    == [ctm |-> c_g.ctm, panic |-> NoPanic,
                      stack |-> [i \in 1..Len(c_stack) |-> c_stack[i].ctm]]
            v     == RunCTM(g0, <<Instr("q", <<>>)>> \o S
                                   \o <<Instr("Q", <<>>)>>)
        IN /\ inner.panic = NoPanic =>
                /\ Len(inner.stack) = Len(c_stack) + 1
                /\ after.panic = NoPanic
                /\ after.g = Defaulted(c_g)
                /\ after.stack = c_stack
           /\ v.panic = NoPanic
           /\ v.ctm = Defaulted(c_g).ctm
           /\ v.stack = g0.stack

\* cm q cm Q, or the like, has run: the Q of the fourth operator brought a
\* ctm of scale 2 back and emptied the stack, and from here q Tm Q, q BT Q
\* and q cm Q run without a panic.
C19_Witness ==
    /\ c_pc = "run"
    /\ c_nops = 4
    /\ c_last.op = "Q"
    /\ c_stack = <<>>
    /\ c_g.ctm = Matrix(F(2), F(0), F(0), F(2), F(0), F(0))
    /\ \A op \in {"Tm", "BT", "cm", "Tc", "TL"} :
         \E i \in Plain :
            /\ i.op = op
            /\ Run(Machine, <<Instr("q", <<>>), i>>).panic = NoPanic
            /\ Run(Machine, <<Instr("q", <<>>), i>>).g # c_g

\* C20 as stated: outside a text object, that is unless a BT has been read
\* with no ET after it, tm and tlm are nil.
C20_AsStated ==
    (c_pc = "run" /\ ~c_intext) => (c_g.tm = NilM /\ c_g.tlm = NilM)

\* The keywords interpret handles itself or reads as an object.
ReservedKw ==
    {"null", "[", "]", "<<", ">>", "dict", "currentdict", "begin", "end",
     "def", "pop", "dup"}

\* The dicts of the dict stack that bind kw, and the value the topmost of
\* them binds it to.
Binders(kw) == {i \in 1..Len(i_dicts) : HasKey(i_heap[i_dicts[i]], kw)}
TopValue(kw) ==
    LET top == CHOOSE i \in Binders(kw) : \A j \in Binders(kw) : j <= i
    IN ValueAt(i_heap[i_dicts[top]], kw)

\* a is b with some elements left out.
RECURSIVE IsSubseq(_, _)
IsSubseq(a, b) ==
    IF a = <<>> THEN TRUE
    ELSE IF b = <<>> THEN FALSE
    ELSE IF a[1] = b[1] THEN IsSubseq(Tail(a), Tail(b))
    ELSE IsSubseq(a, Tail(b))

\* The non-reserved keywords among the tokens read so far, in stream order.
ReadSoFar == SubSeq(i_stream, 1, Len(i_stream) - Len(i_rest))
KeywordsRead ==
    LET toks == ReadSoFar
        keep == {i \in 1..Len(toks) :
                    toks[i][1] = "kw" /\ toks[i][2] \notin ReservedKw}
        nth(k) == CHOOSE i \in keep : Cardinality({j \in keep : j < i}) = k - 1
    IN [k \in 1..Cardinality(keep) |-> toks[nth(k)][2]]

\* C21: a non-reserved keyword bound in a dict of the dict stack pushes the
\* value of the topmost dict that binds it and calls no handler; one bound
\* nowhere calls the handler once, with the stack as it is and the keyword;
\* no other token calls the handler; and the keywords of the calls are, in
\* order, among the non-reserved keywords of the stream read so far.
C21_Dispatch ==
    /\ [](IsSubseq([k \in 1..Len(i_calls) |-> i_calls[k].op], KeywordsRead))
    /\ [][(i_pc = "run" /\ i_rest # <<>>) =>
            LET tok == Head(i_rest)
            IN IF tok[1] = "kw" /\ tok[2] \notin ReservedKw
               THEN IF Binders(tok[2]) # {}
                    THEN /\ i_stk' = Append(i_stk, TopValue(tok[2]))
                         /\ i_calls' = i_calls
                    ELSE i_calls' =
                            Append(i_calls, [op |-> tok[2], stk |-> i_stk])
               ELSE i_calls' = i_calls]_vars

\* x is bound to 1 in one dict and to /x in a dict above it; the stream
\* x y has been read: x pushed /x and y called the handler with that stack.
C21_Witness ==
    /\ i_pc = "done"
    /\ Len(i_dicts) = 2
    /\ Binders("x") = {1, 2}
    /\ i_calls = <<[op |-> "y", stk |-> <<NameTok("x")>>]>>

\* The stream starts with a hex string of hex digits alone: <, then
\* HexDigits digits, then >.
LeadingDigits ==
    CHOOSE k \in 0..Len(l_in) :
        /\ \A i \in 2..(k + 1) : i <= Len(l_in) /\ unhex(l_in[i]) >= 0
        /\ (k + 2 > Len(l_in) \/ unhex(l_in[k + 2]) < 0)
StartsWithHexString ==
    /\ Len(l_in) >= LeadingDigits + 2
    /\ l_in[1] = "<"
    /\ l_in[LeadingDigits + 2] = ">"

\* The bytes of that hex string, an odd last digit padded with a zero.
PaddedBytes ==
    [i \in 1..((LeadingDigits + 1) \div 2) |->
        16 * unhex(l_in[2 * i]) +
        (IF 2 * i <= LeadingDigits THEN unhex(l_in[2 * i + 1]) ELSE 0)]

\* C22 as stated: a hex string of hex digits is read whatever the number of
\* its digits, an odd last digit as the high half of a byte whose low
\* half is zero; readHexString fails only on a character that is neither a
\* hex digit nor the closing >.
C22_AsStated ==
    /\ StartsWithHexString =>
          /\ l_toks = <<>> => l_panic = NoPanic
          /\ l_toks # <<>> => l_toks[1] = StrTok(PaddedBytes)
    /\ l_panic = "malformed hex string" =>
          \/ unhex(l_c) < 0
          \/ unhex(l_in[l_pos]) < 0 /\ l_in[l_pos] # ">"

\* C27 as stated: interpret comes to an end on every stream, by returning
\* or by a panic.
C27_AsStated == <>(l_pc \in {"done", "panic"})

\* C23 as stated: the walk of findInherited along Parent and the search of
\* resolve along Extends come to an end on every object graph.
C23_AsStated == <>(f_pc \in {"returned", "panic"})

\* The text state but for the matrices and the leading.
TextParams(g) == <<g.tc, g.tw, g.th, g.tf, g.tfs>>

\* translate(tx, ty) times the line matrix of g.
Moved(g, tx, ty) == Mul(Matrix(F(1), F(0), F(0), F(1), tx, ty), g.tlm)

\* A step in which the handler is called with Td, TD or T* and the operands
\* of the operator.
MoveStep ==
    /\ c_pc = "run" /\ c_nops' = c_nops + 1
    /\ c_last'.op \in {"Td", "TD", "T*"}
    /\ (c_last'.op # "T*" => Len(c_last'.args) >= 2)

\* What the claim says of such a step: T* makes tlm the translation by
\* (0, -tl) times the old tlm, makes tm that tlm and keeps the leading; TD
\* tx ty makes the leading -ty and moves as Td tx ty does; Td, TD and T*
\* leave tc, tw, the horizontal scale, the font and the font size alone,
\* and Td leaves the leading alone as well.
MoveEffect ==
    LET a  == c_last'.args
        tx == IF c_last'.op = "T*" THEN F(0) ELSE F(Float64(a[1]))
        ty == IF c_last'.op = "T*" THEN FNeg(c_g.tl)
              ELSE F(Float64(a[2]))
    IN /\ c_pc' = "run"
       /\ c_g'.tlm = Moved(c_g, tx, ty)
       /\ c_g'.tm = c_g'.tlm
       /\ c_g'.tl = (IF c_last'.op = "TD" THEN FNeg(ty) ELSE c_g.tl)
       /\ TextParams(c_g') = TextParams(c_g)
       /\ c_g'.ctm = c_g.ctm
       /\ c_stack' = c_stack

\* C24 as stated: inside a text object, that is after a BT with no ET since,
\* every step of Td, TD and T* has the effect the claim describes.
C24_AsStated ==
    [][(MoveStep /\ c_intext) => MoveEffect]_vars

\* The effect is the one described wherever tlm is set, inside a text
\* object or not.
C24_TextMoves ==
    [][(MoveStep /\ c_g.tlm # NilM) => MoveEffect]_vars

\* BT, 12 TL and T* have run: the line has moved down by the leading 12,
\* which is still 12.
C24_Witness ==
    /\ c_pc = "run"
    /\ c_last.op = "T*"
    /\ c_g.tl = F(12)
    /\ c_g.tlm = Matrix(F(1), F(0), F(0), F(1), F(0), F(-12))
    /\ c_g.tm = c_g.tlm

\* The structural problems of an Encrypt dictionary: an unsupported V or R,
\* a bad key length, a crypt filter of V 4 or 5 that is missing or not the
\* one of the version, or a missing O, U or UE.
Structural(enc) ==
    LET n == IF enc.Length = 0 THEN 40 ELSE enc.Length
    IN \/ enc.V \notin {1, 2, 4, 5}
       \/ enc.R \notin {2, 3, 4, 6}
       \/ n % 8 # 0 \/ n < 40 \/ (n > 128 /\ n # 256)
       \/ enc.V \in {4, 5} /\ enc.CF # (IF enc.V = 5 THEN "AESV3" ELSE "AESV2")
       \/ enc.R # 6 /\ (enc.O = 0 \/ enc.ULen = 0)
       \/ enc.R = 6 /\ (enc.ULen = 0 \/ ~enc.UE)

\* C25 as stated: on an Encrypt dictionary with a structural problem
\* decrypter.New returns, for every password, an error that is not
\* ErrInvalidPassword, and so the construction ends with such an error.
C25_AsStated ==
    (/\ CryptDone /\ e_trailer.hasEncrypt /\ e_trailer.ID
     /\ e_trailer.Encrypt.Filter = "Standard"
     /\ Structural(e_trailer.Encrypt)) =>
        /\ e_pc = "returned"
        /\ e_err \notin {"nil", ErrInvalidPassword}
        /\ \A pw \in Passwords :
              LET d == New(pw, e_trailer.Encrypt)
              IN ~d.panic /\ d.err \notin {"nil", ErrInvalidPassword}

\* C26 as stated: a search that Reader.Page has started comes to an end,
\* with a page found or not found.
C26_AsStated == (pg_pc = "outer") ~> (pg_pc \in {"found", "notfound"})

RECURSIVE AddedFrom(_, _, _)
\* What the calls of hist hand to the builder, in call order: for a Render
\* of a non-empty content the separator chosen from the previous y and the
\* content, for an Add the contents of its parts.  prevY is the y of the last
\* rendered content and empty says that the builder holds no part yet.
AddedFrom(hist, prevY, empty) ==
    IF hist = <<>> THEN <<>>
    ELSE LET c == hist[1]
         IN IF c.op = "Render"
            THEN IF c.content = <<>>
                 THEN AddedFrom(Tail(hist), prevY, empty)
                 ELSE Separator(empty, prevY, c.y, c.h) \o c.content
                         \o AddedFrom(Tail(hist), c.y, FALSE)
            ELSE Concat(c.t) \o AddedFrom(Tail(hist), prevY, empty /\ c.t = <<>>)

\* Two neighbouring parts never have both the same size and the same weight.
NeighboursDiffer ==
    \A i \in 1..(Len(b_text) - 1) :
        \/ b_text[i].Size # b_text[i + 1].Size
        \/ b_text[i].Weight # b_text[i + 1].Weight

\* C28: after any sequence of Render and Add calls, every two consecutive
\* parts of Builder.Text() differ in size or in weight, and the contents of
\* the parts concatenate to the separators and contents that the calls
\* added, in call order.
C28_PartsInvariant ==
    /\ NeighboursDiffer
    /\ Concat(b_text) = AddedFrom(b_hist, 0, TRUE)

\* An Add and two Renders have left two parts: a separator was added, and a
\* piece was merged into a part while another one opened a new part.
C28_Witness ==
    /\ Len(b_hist) = 3
    /\ \E i \in 1..3 : b_hist[i].op = "Add" /\ Len(b_hist[i].t) = 2
    /\ \E i \in 1..3 : b_hist[i].op = "Render" /\ b_hist[i].content # <<>>
    /\ Len(b_text) = 2
    /\ Len(Concat(b_text)) >= 5
    /\ \E i \in 1..Len(Concat(b_text)) : Concat(b_text)[i] = "\n"

\* resolve, lines 657-664, on the table readXref returned: ptr resolves to
\* null without the file being read.
ResolvesNull(table, ptr) ==
    ptr.ID >= Len(table) \/ Dead(table[ptr.ID + 1], ptr)

\* The references to object x, of any generation a section gives.
PtrsOf(x) == {Objptr(x, gen) : gen \in Gens \cup {65535}}

\* C29 as stated: an object that the newest xref section marks as free is
\* still free when the Prev chain has been walked: resolve returns null for
\* every reference to it, also when an older section lists the object
\* number as in use.
C29_AsStated ==
    x_pc = "done" =>
        \A x \in x_free : \A ptr \in PtrsOf(x) : ResolvesNull(x_table, ptr)

\* C30 as stated: NewReaderEncrypted never panics while it scans the header
\* and the tail of the source, whatever the source holds: a tail of line
\* ends only and a source shorter than endChunk included.
C30_AsStated == h_pc # "panic"

====
